---- MODULE Spec2Model ----
(***************************************************************************)
(* Model of the mini-word editing core: rope, paragraph index, document,   *)
(* undo manager and editor.                                                *)
(*                                                                         *)
(* Text is a sequence of one-byte characters.  A usize value is held as an *)
(* integer r standing for r mod 2^w: a negative r is the wrapped value     *)
(* 2^w + r, so wrapping +/- is integer +/- and only the comparisons are    *)
(* unsigned (ULt, ULe).                                                    *)
(***************************************************************************)
EXTENDS Integers, Sequences, FiniteSets, TLC

VARIABLES
    overflow_checks,  \* build profile: arithmetic overflow panics (debug) or wraps
    document,         \* Document: content, blocks, paragraph_index, version, next_para_id
    panicked,         \* a call has panicked; the program has stopped
    layout,           \* LayoutState: paragraph_layouts, pages, dirty_paragraphs, ...
    render_buffer,    \* RenderBuffer: u32_data, f32_data, text_data, pending cursor / selections
    last,             \* the last call: its name, input, EditResult and the state before it
    used_ids,         \* every paragraph id the document has ever held
    editor,           \* Editor: cursor, selection, undo_manager
    hist,             \* the Editor calls made so far: names, return values, texts
    undo_manager,     \* an UndoManager used on its own, with a small max_depth
    rope              \* a Rope used on its own: its root node

\* ------------------------------------------------------------------ bounds
MaxLen == 4          \* an Insert is offered only while text stays this short
MaxVersion == 2      \* top-level calls are offered while document.version is below this
MaxParaId == 5       \* paragraph ids are allocated below this
MaxEdits == 3        \* insert_text / delete calls offered to an Editor
MaxMoves == 1        \* move_cursor calls offered to an Editor
MaxReplays == 4      \* undo / redo calls offered to an Editor
MaxBeyond == 1       \* how far past the end of the text a Delete may reach
MaxDepth == 2        \* largest max_depth given to an UndoManager used on its own
MaxPendingOps == 2   \* record_edit calls offered within one pending transaction
MaxUndoVersion == 3  \* undo / redo on the manager's document are offered below this version
MaxRopeLen == 4      \* Rope::insert is offered while Rope::len() stays this short
MaxContentWidth == 2   \* widest content_width, in characters of the default font
MaxContentHeight == 2  \* tallest content_height, in lines of the default font
MaxPages == 2          \* most pages in a display list handed to the render buffer
MaxSelections == 2     \* most selection rectangles in a display list
MaxCursorWrites == 2   \* write_cursor calls offered per frame
LongPageLines == 72    \* lines of the one long page offered to the render buffer
MaxBreakLen == 3       \* longest generated paragraph text handed to the line breaker alone
MaxBlockLen == 4       \* longest block handed to BlockMeta::on_delete alone
MaxSpans == 2          \* most style spans of that block
MaxCursorMoves == 3    \* move_cursor calls offered to an Editor that lays its text out
MaxCursorEdits == 1    \* insert_text / delete calls offered to that Editor
MaxMargin == 1         \* widest margin_left, in characters of the default font
MaxSelectEdits == 2    \* insert_text / delete calls before a select_all
MaxDisplayHeight == 3  \* tallest content_height of a displayed editor, in lines
MaxDisplayEdits == 1   \* insert_text / delete calls offered to a displayed editor
MaxDisplayMoves == 2   \* move_cursor calls offered to a displayed editor

\* ------------------------------------------------------------ program constants
MAX_LEAF_SIZE == 1024
UsizeBits == 64
page_width == 612
page_height == 792

NL == "\n"
None == [none |-> TRUE]
Some(x) == [some |-> x]

\* ------------------------------------------------------------ usize arithmetic
ULt(a, b) == IF (a < 0) = (b < 0) THEN a < b ELSE b < 0
ULe(a, b) == a = b \/ ULt(a, b)
UMin(a, b) == IF ULe(a, b) THEN a ELSE b
UMax(a, b) == IF ULe(a, b) THEN b ELSE a
saturating_sub(a, b) == IF ULt(a, b) THEN 0 ELSE a - b
\* a - b and a + b leave the usize range (a panic when overflow checks are on)
SubOverflows(a, b) == ULt(a, b)
AddOverflows(a, b) == (a < 0 /\ b < 0) \/ ((a < 0) # (b < 0) /\ a + b >= 0)

\* ------------------------------------------------------------ sequences
RECURSIVE SeqSum(_)
SeqSum(s) == IF s = <<>> THEN 0 ELSE Head(s) + SeqSum(Tail(s))

Take(s, n) == SubSeq(s, 1, n)
Drop(s, n) == SubSeq(s, n + 1, Len(s))
CountNL(s) == Cardinality({i \in 1..Len(s) : s[i] = NL})
Range(s) == {s[i] : i \in 1..Len(s)}

RECURSIVE SetToSeq(_)
SetToSeq(S) == IF S = {} THEN <<>>
               ELSE LET x == CHOOSE y \in S : \A z \in S : y <= z
                    IN <<x>> \o SetToSeq(S \ {x})

RECURSIVE Perms(_)
Perms(S) == IF S = {} THEN {<<>>}
            ELSE UNION {{<<x>> \o p : p \in Perms(S \ {x})} : x \in S}

\* ------------------------------------------------------------------ rope
Empty == [kind |-> "Empty"]
Leaf(text) == [kind |-> "Leaf", text |-> text, line_count |-> CountNL(text)]
Branch(l, r, lw, ll) ==
    [kind |-> "Branch", left |-> l, right |-> r, left_weight |-> lw, left_lines |-> ll]
\* a panic raised inside a rope operation
RopePanic == [kind |-> "Panic"]

RECURSIVE RopeNode_len(_)
RopeNode_len(n) ==
    CASE n.kind = "Leaf" -> Len(n.text)
      [] n.kind = "Branch" -> n.left_weight + RopeNode_len(n.right)
      [] OTHER -> 0

RECURSIVE RopeNode_line_count(_)
RopeNode_line_count(n) ==
    CASE n.kind = "Leaf" -> n.line_count
      [] n.kind = "Branch" -> n.left_lines + RopeNode_line_count(n.right)
      [] OTHER -> 0

RECURSIVE height(_)
height(n) ==
    IF n.kind = "Branch"
    THEN LET hl == height(n.left)
             hr == height(n.right)
         IN 1 + (IF hl > hr THEN hl ELSE hr)
    ELSE 1

RECURSIVE collect_leaves(_)
collect_leaves(n) ==
    CASE n.kind = "Leaf" -> <<n>>
      [] n.kind = "Branch" -> collect_leaves(n.left) \o collect_leaves(n.right)
      [] OTHER -> <<>>

RECURSIVE collect_all(_)
collect_all(n) ==
    CASE n.kind = "Leaf" -> n.text
      [] n.kind = "Branch" -> collect_all(n.left) \o collect_all(n.right)
      [] OTHER -> <<>>

\* one round of build_tree's while loop: pair up neighbours
RECURSIVE build_tree_round(_)
build_tree_round(nodes) ==
    IF Len(nodes) = 0 THEN <<>>
    ELSE IF Len(nodes) = 1 THEN nodes
    ELSE <<Branch(nodes[1], nodes[2], RopeNode_len(nodes[1]), RopeNode_line_count(nodes[1]))>>
         \o build_tree_round(Drop(nodes, 2))

RECURSIVE build_tree(_)
build_tree(nodes) ==
    IF Len(nodes) = 0 THEN Empty
    ELSE IF Len(nodes) = 1 THEN nodes[1]
    ELSE build_tree(build_tree_round(nodes))

Rope_from_str(s) == IF s = <<>> THEN Empty ELSE build_tree(<<Leaf(s)>>)

\* (len / MAX_LEAF_SIZE).log2().ceil() as usize + 1; the cast saturates at 0
optimal_height(len) ==
    IF len < 0 THEN UsizeBits - 10 + 1
    ELSE IF len <= MAX_LEAF_SIZE THEN 1 ELSE 2

rebalance_if_needed(root) ==
    IF height(root) > optimal_height(RopeNode_len(root)) * 2
    THEN build_tree(collect_leaves(root))
    ELSE root

RECURSIVE insert_node(_, _, _)
insert_node(node, offset, new_node) ==
    CASE node.kind = "Empty" -> new_node
      [] node.kind = "Leaf" ->
            IF offset = 0
            THEN Branch(new_node, node, RopeNode_len(new_node), RopeNode_line_count(new_node))
            ELSE IF ~ULt(offset, Len(node.text))
            THEN Branch(node, new_node, offset, node.line_count)
            ELSE LET left_leaf == Leaf(Take(node.text, offset))
                     right_leaf == Leaf(Drop(node.text, offset))
                     left_combined == Branch(left_leaf, new_node, offset, left_leaf.line_count)
                 IN Branch(left_combined, right_leaf,
                           RopeNode_len(left_combined), RopeNode_line_count(left_combined))
      [] node.kind = "Branch" ->
            IF ULe(offset, node.left_weight)
            THEN LET new_left == insert_node(node.left, offset, new_node)
                 IN Branch(new_left, node.right,
                           RopeNode_len(new_left), RopeNode_line_count(new_left))
            ELSE Branch(node.left,
                        insert_node(node.right, offset - node.left_weight, new_node),
                        node.left_weight, node.left_lines)

Rope_insert(root, offset, text) ==
    IF text = <<>> THEN root
    ELSE rebalance_if_needed(insert_node(root, offset, Leaf(text)))

\* merge_nodes caching the line count of the wrong child
merge_nodes_right_lines(left, right) ==
    IF left.kind = "Panic" \/ right.kind = "Panic" THEN RopePanic
    ELSE IF left.kind = "Empty" THEN right
    ELSE IF right.kind = "Empty" THEN left
    ELSE Branch(left, right, RopeNode_len(left), RopeNode_line_count(right))

merge_nodes(left, right) ==
    IF left.kind = "Panic" \/ right.kind = "Panic" THEN RopePanic
    ELSE IF left.kind = "Empty" THEN right
    ELSE IF right.kind = "Empty" THEN left
    ELSE Branch(left, right, RopeNode_len(left), RopeNode_line_count(left))

RECURSIVE delete_range(_, _, _)
delete_range(node, start, end) ==
    CASE node.kind = "Empty" -> Empty
      [] node.kind = "Leaf" ->
            LET n == Len(node.text) IN
            IF start = 0 /\ ~ULt(end, n) THEN Empty
            ELSE IF start = 0 THEN Leaf(Drop(node.text, end))
            ELSE IF ~ULt(end, n)
            THEN (IF ULt(n, start) THEN RopePanic   \* text[..start] past the end
                  ELSE Leaf(Take(node.text, start)))
            ELSE Leaf(Take(node.text, start) \o Drop(node.text, end))
      [] node.kind = "Branch" ->
            LET left_end == node.left_weight IN
            IF ULe(end, left_end)
            THEN merge_nodes(delete_range(node.left, start, end), node.right)
            ELSE IF ~ULt(start, left_end)
            THEN merge_nodes(node.left,
                             delete_range(node.right, start - left_end, end - left_end))
            ELSE merge_nodes(delete_range(node.left, start, left_end),
                             delete_range(node.right, 0, end - left_end))

Rope_delete(root, start, end) ==
    IF ~ULt(start, end) \/ ~ULt(start, RopeNode_len(root)) THEN root
    ELSE LET r == delete_range(root, start, UMin(end, RopeNode_len(root)))
         IN IF r.kind = "Panic" THEN RopePanic ELSE rebalance_if_needed(r)

RECURSIVE collect_range(_, _, _)
collect_range(node, start, end) ==
    IF ~ULt(start, end) THEN <<>>
    ELSE CASE node.kind = "Leaf" ->
                LET s == UMin(start, Len(node.text))
                    e == UMin(end, Len(node.text))
                IN IF s < e THEN SubSeq(node.text, s + 1, e) ELSE <<>>
           [] node.kind = "Branch" ->
                (IF ULt(start, node.left_weight)
                 THEN collect_range(node.left, start, UMin(end, node.left_weight))
                 ELSE <<>>)
                \o
                (IF ULt(node.left_weight, end)
                 THEN collect_range(node.right,
                                    saturating_sub(start, node.left_weight),
                                    end - node.left_weight)
                 ELSE <<>>)
           [] OTHER -> <<>>

\* String::with_capacity(end - start) panics when end < start
slice_panics(start, end) == ULt(end, start)
Rope_slice(root, start, end) == collect_range(root, start, end)

\* ------------------------------------------------------------ finite maps
EmptyMap == [x \in {} |-> 0]
Put(f, k, v) == [x \in DOMAIN f \cup {k} |-> IF x = k THEN v ELSE f[x]]
Del(f, k) == [x \in DOMAIN f \ {k} |-> f[x]]
InsertAt(s, pos, x) == Take(s, pos) \o <<x>> \o Drop(s, pos)
Retain(s, x) == SelectSeq(s, LAMBDA y : y # x)
\* 1-based position of the first element satisfying P, 0 when none does
FirstPos(s, P(_)) ==
    IF \E i \in 1..Len(s) : P(s[i])
    THEN CHOOSE i \in 1..Len(s) : P(s[i]) /\ \A j \in 1..(i - 1) : ~P(s[j])
    ELSE 0

\* ------------------------------------------------------------ paragraph index
ParagraphIndex_new == [offset_to_para |-> EmptyMap, para_bounds |-> EmptyMap, order |-> <<>>]

ParagraphIndex_insert(idx, para_id, start_offset, length) ==
    LET bounds == Put(idx.para_bounds, para_id, <<start_offset, length>>)
        hit == FirstPos(idx.order,
                        LAMBDA id : id \in DOMAIN bounds /\ ULt(start_offset, bounds[id][1]))
        pos == IF hit = 0 THEN Len(idx.order) ELSE hit - 1
    IN [offset_to_para |-> Put(idx.offset_to_para, start_offset, para_id),
        para_bounds |-> bounds,
        order |-> InsertAt(idx.order, pos, para_id)]

insert_after(idx, after, para_id, start_offset, length) ==
    LET hit == FirstPos(idx.order, LAMBDA id : id = after)
    IN [offset_to_para |-> Put(idx.offset_to_para, start_offset, para_id),
        para_bounds |-> Put(idx.para_bounds, para_id, <<start_offset, length>>),
        order |-> IF hit # 0 THEN InsertAt(idx.order, hit, para_id)
                  ELSE Append(idx.order, para_id)]

\* remove that also takes the paragraph in front of para_id out of the order
ParagraphIndex_remove_with_previous(idx, para_id) ==
    LET keep == {i \in 1..Len(idx.order) :
                    idx.order[i] # para_id
                    /\ (i < Len(idx.order) => idx.order[i + 1] # para_id)}
    IN [offset_to_para |-> IF para_id \in DOMAIN idx.para_bounds
                           THEN Del(idx.offset_to_para, idx.para_bounds[para_id][1])
                           ELSE idx.offset_to_para,
        para_bounds |-> Del(idx.para_bounds, para_id),
        order |-> SelectSeq(idx.order, LAMBDA y : \E i \in keep : idx.order[i] = y)]

ParagraphIndex_remove(idx, para_id) ==
    [offset_to_para |-> IF para_id \in DOMAIN idx.para_bounds
                        THEN Del(idx.offset_to_para, idx.para_bounds[para_id][1])
                        ELSE idx.offset_to_para,
     para_bounds |-> Del(idx.para_bounds, para_id),
     order |-> Retain(idx.order, para_id)]

update_length(idx, para_id, new_length) ==
    IF para_id \in DOMAIN idx.para_bounds
    THEN [idx EXCEPT !.para_bounds[para_id] = <<@[1], new_length>>]
    ELSE idx

\* the loop of update_lengths_after over to_update taken in the order `ids`
RECURSIVE update_lengths_loop(_, _, _)
update_lengths_loop(idx, ids, delta) ==
    IF ids = <<>> THEN idx
    ELSE LET para_id == Head(ids)
             start == idx.para_bounds[para_id][1]
             new_start == start + delta
             moved == [idx EXCEPT
                         !.offset_to_para = Put(Del(@, start), new_start, para_id),
                         !.para_bounds[para_id] = <<new_start, @[2]>>]
         IN update_lengths_loop(moved, Tail(ids), delta)

\* to_update is collected by iterating a hash map: every order is possible
update_lengths_after(idx, after_offset, delta) ==
    LET to_update == {id \in DOMAIN idx.para_bounds :
                         ULt(after_offset, idx.para_bounds[id][1])}
    IN {update_lengths_loop(idx, ids, delta) : ids \in Perms(to_update)}

para_at_offset(idx, offset) ==
    LET below == {k \in DOMAIN idx.offset_to_para : ULe(k, offset)}
    IN IF below # {}
       THEN LET start == CHOOSE k \in below : \A j \in below : ULe(j, k)
            IN <<idx.offset_to_para[start], start>>
       ELSE IF idx.order # <<>> /\ idx.order[1] \in DOMAIN idx.para_bounds
       THEN <<idx.order[1], idx.para_bounds[idx.order[1]][1]>>
       ELSE <<0, 0>>

ParagraphIndex_first(idx) == IF idx.order # <<>> THEN idx.order[1] ELSE 0

\* ------------------------------------------------------------ block metadata
StyleSpan(start, end, font_id) == [start |-> start, end |-> end, font_id |-> font_id]
BlockMeta(start_offset, byte_len, styles) ==
    [start_offset |-> start_offset, byte_len |-> byte_len, styles |-> styles]

on_insert_span(s, offset, len) ==
    IF ULt(s.start, offset) /\ ULe(offset, s.end) THEN [s EXCEPT !.end = @ + len]
    ELSE IF ULe(offset, s.start) THEN [s EXCEPT !.start = @ + len, !.end = @ + len]
    ELSE s

on_insert(styles, offset, len) ==
    [i \in 1..Len(styles) |-> on_insert_span(styles[i], offset, len)]

\* filter_map body of on_delete: <<>> for a dropped span, else <<span>>
on_delete_span(s, start, end) ==
    LET delete_len == end - start IN
    IF ULe(s.end, start) THEN <<s>>
    ELSE IF ULe(end, s.start)
    THEN <<[s EXCEPT !.start = @ - delete_len, !.end = @ - delete_len]>>
    ELSE IF ULt(s.start, start) THEN <<[s EXCEPT !.end = @ - delete_len]>>
    ELSE LET t == [s EXCEPT !.start = start, !.end = @ - delete_len]
         IN IF ~ULt(t.start, t.end) THEN <<>> ELSE <<t>>

RECURSIVE Flatten(_)
Flatten(ss) == IF ss = <<>> THEN <<>> ELSE Head(ss) \o Flatten(Tail(ss))

on_delete(styles, start, end) ==
    Flatten([i \in 1..Len(styles) |-> on_delete_span(styles[i], start, end)])

\* some subtraction of on_delete leaves the usize range
on_delete_overflows(styles, start, end) ==
    /\ styles # <<>>
    /\ \/ SubOverflows(end, start)
       \/ \E i \in 1..Len(styles) :
             /\ ULt(start, styles[i].end)
             /\ ULt(styles[i].start, end)
             /\ SubOverflows(styles[i].end, end - start)

\* the split_styles closure of apply_insert: <<first, second>>
split_styles(styles, split_at) ==
    LET firstOf(s) == IF ULe(s.end, split_at) THEN <<s>>
                      ELSE IF ULe(split_at, s.start) THEN <<>>
                      ELSE <<[s EXCEPT !.end = split_at]>>
        secondOf(s) == IF ULe(s.end, split_at) THEN <<>>
                       ELSE IF ULe(split_at, s.start)
                       THEN <<[s EXCEPT !.start = @ - split_at, !.end = @ - split_at]>>
                       ELSE <<[s EXCEPT !.start = 0, !.end = @ - split_at]>>
    IN <<Flatten([i \in 1..Len(styles) |-> firstOf(styles[i])]),
         Flatten([i \in 1..Len(styles) |-> secondOf(styles[i])])>>

\* stable insertion sort by start (sort_by_key)
RECURSIVE sort_by_start(_)
sort_by_start(ss) ==
    IF ss = <<>> THEN <<>>
    ELSE LET rest == sort_by_start(Take(ss, Len(ss) - 1))
             x == ss[Len(ss)]
             hit == FirstPos(rest, LAMBDA y : ULt(x.start, y.start))
         IN IF hit = 0 THEN Append(rest, x) ELSE InsertAt(rest, hit - 1, x)

RECURSIVE merge_adjacent(_, _)
merge_adjacent(merged, ss) ==
    IF ss = <<>> THEN merged
    ELSE LET s == Head(ss) IN
         IF merged # <<>> /\ merged[Len(merged)].end = s.start
                          /\ merged[Len(merged)].font_id = s.font_id
         THEN merge_adjacent([merged EXCEPT ![Len(merged)].end = s.end], Tail(ss))
         ELSE merge_adjacent(Append(merged, s), Tail(ss))

BlockMeta_format_range(styles, start, end, font_id) ==
    IF ~ULt(start, end) THEN styles
    ELSE LET keep(s) ==
                 IF ULe(s.end, start) \/ ULe(end, s.start) THEN <<s>>
                 ELSE (IF ULt(s.start, start)
                       THEN <<StyleSpan(s.start, start, s.font_id)>> ELSE <<>>)
                      \o
                      (IF ULt(end, s.end)
                       THEN <<StyleSpan(end, s.end, s.font_id)>> ELSE <<>>)
             new_styles == Append(Flatten([i \in 1..Len(styles) |-> keep(styles[i])]),
                                  StyleSpan(start, end, font_id))
         IN merge_adjacent(<<>>, sort_by_start(new_styles))

append_styles(styles, other_styles, offset_shift) ==
    styles \o [i \in 1..Len(other_styles) |->
                  [other_styles[i] EXCEPT !.start = @ + offset_shift,
                                          !.end = @ + offset_shift]]

\* ------------------------------------------------------------------ document
Document_new ==
    [content |-> Empty,
     blocks |-> Put(EmptyMap, 0, BlockMeta(0, 0, <<>>)),
     paragraph_index |-> ParagraphIndex_insert(ParagraphIndex_new, 0, 0, 0),
     version |-> 0,
     next_para_id |-> 1]

\* text.split('\n'): the byte ranges between separators, at least one piece
RECURSIVE split_nl(_)
split_nl(text) ==
    LET hit == FirstPos(text, LAMBDA c : c = NL)
    IN IF hit = 0 THEN <<text>>
       ELSE <<Take(text, hit - 1)>> \o split_nl(Drop(text, hit))

RECURSIVE from_text_loop(_, _, _)
from_text_loop(doc, pieces, offset) ==
    IF pieces = <<>> THEN doc
    ELSE LET para_id == doc.next_para_id
             para_len == Len(Head(pieces))
         IN from_text_loop(
                [doc EXCEPT
                   !.next_para_id = @ + 1,
                   !.blocks = Put(@, para_id, BlockMeta(offset, para_len, <<>>)),
                   !.paragraph_index = ParagraphIndex_insert(@, para_id, offset, para_len)],
                Tail(pieces), offset + para_len + 1)

Document_from_text(text) ==
    LET doc == from_text_loop([content |-> Empty, blocks |-> EmptyMap,
                               paragraph_index |-> ParagraphIndex_new,
                               version |-> 0, next_para_id |-> 0],
                              split_nl(text), 0)
    IN [doc EXCEPT !.content = Rope_from_str(text)]

Document_len(doc) == RopeNode_len(doc.content)
Document_text(doc) == collect_all(doc.content)
paragraph_order(doc) == doc.paragraph_index.order
paragraph_count(doc) == Len(doc.paragraph_index.order)

first_paragraph(doc) == ParagraphIndex_first(doc.paragraph_index)

paragraph_text(doc, para_id) ==
    IF para_id \in DOMAIN doc.blocks
    THEN LET meta == doc.blocks[para_id]
         IN Rope_slice(doc.content, meta.start_offset, meta.start_offset + meta.byte_len)
    ELSE <<>>

\* paragraph_text does not return: start_offset + byte_len overflows, or the
\* slice is asked for a negative capacity
paragraph_text_panics(doc, para_id) ==
    /\ para_id \in DOMAIN doc.blocks
    /\ LET meta == doc.blocks[para_id] IN
       \/ overflow_checks /\ AddOverflows(meta.start_offset, meta.byte_len)
       \/ slice_panics(meta.start_offset, meta.start_offset + meta.byte_len)

DocPosition(para_id, offset) == [para_id |-> para_id, offset |-> offset]

position_to_offset(doc, pos) ==
    IF pos.para_id \in DOMAIN doc.blocks
    THEN doc.blocks[pos.para_id].start_offset + pos.offset
    ELSE 0

position_to_offset_panics(doc, pos) ==
    /\ overflow_checks
    /\ pos.para_id \in DOMAIN doc.blocks
    /\ AddOverflows(doc.blocks[pos.para_id].start_offset, pos.offset)

offset_to_position(doc, offset) ==
    LET at == para_at_offset(doc.paragraph_index, offset)
    IN DocPosition(at[1], saturating_sub(offset, at[2]))

text_range(doc, start, end) == Rope_slice(doc.content, start, end)

EditResult(version, affected, created, deleted, new_cursor) ==
    [version |-> version, affected_paragraphs |-> affected,
     created_paragraphs |-> created, deleted_paragraphs |-> deleted,
     new_cursor |-> new_cursor]

\* what a call leaves behind: the document, the EditResult, and whether it panicked
Outcome(doc, result, panic) == [doc |-> doc, result |-> result, panic |-> panic]

shift_block_offsets_after(blocks, after_offset, delta) ==
    [id \in DOMAIN blocks |->
        IF ULt(after_offset, blocks[id].start_offset)
        THEN [blocks[id] EXCEPT !.start_offset = @ + delta]
        ELSE blocks[id]]

\* 0-based byte positions of the newlines of text, ascending
newline_positions(text) == SetToSeq({i - 1 : i \in {j \in 1..Len(text) : text[j] = NL}})

\* a plausible slip: the id derived from the number of live paragraphs
new_para_id_from_count(blocks, next_para_id) == Cardinality(DOMAIN blocks)

\* ParagraphId(self.next_para_id): the id apply_insert gives a created paragraph
new_para_id(blocks, next_para_id) == next_para_id

\* the "for (i, &nl_pos)" loop of apply_insert; st carries the loop's variables
RECURSIVE segment_loop(_, _, _, _, _)
segment_loop(st, nls, i, para_id, tail_len) ==
    IF i > Len(nls) THEN st
    ELSE LET last_seg == i = Len(nls)
             segment_len == IF ~last_seg THEN nls[i + 1] - nls[i] - 1
                            ELSE tail_len - (st.offset_in_para + nls[i] + 1)
             sp == split_styles(st.rest_styles, segment_len)
             new_para == new_para_id(st.blocks, st.next_para_id)
         IN segment_loop(
              [st EXCEPT
                 !.rest_styles = sp[2],
                 !.next_para_id = @ + 1,
                 !.blocks = Put(@, new_para, BlockMeta(st.current_start, segment_len, sp[1])),
                 !.index = insert_after(@, para_id, new_para, st.current_start, segment_len),
                 !.created = Append(@, new_para),
                 !.current_start = @ + segment_len + 1,
                 !.overflow = @ \/ (last_seg /\ SubOverflows(tail_len,
                                                 st.offset_in_para + nls[i] + 1))
                                \/ AddOverflows(st.current_start, segment_len + 1)],
              nls, i + 1, para_id, tail_len)

apply_insert(doc, position, text) ==
    LET idx == doc.paragraph_index
        at == para_at_offset(idx, position)
        para_id == at[1]
        para_start == at[2]
        content == Rope_insert(doc.content, position, text)
        nls == newline_positions(text)
        has == para_id \in DOMAIN doc.blocks
        meta0 == doc.blocks[para_id]
        \* meta.on_insert(position.0 - meta.start_offset, text.len())
        styled == IF has
                  THEN Put(doc.blocks, para_id,
                           [meta0 EXCEPT !.styles =
                               on_insert(@, position - meta0.start_offset, Len(text))])
                  ELSE doc.blocks
        overflow1 == has /\ SubOverflows(position, meta0.start_offset)
        finish(blocks, index, next_id, created, overflow) ==
            LET d == [content |-> content,
                      blocks |-> shift_block_offsets_after(blocks, position, Len(text)),
                      paragraph_index |-> index,
                      version |-> doc.version,
                      next_para_id |-> next_id]
            IN Outcome(d,
                       EditResult(doc.version, <<para_id>>, created, <<>>,
                                  offset_to_position(d, position + Len(text))),
                       overflow_checks /\ overflow)
    IN IF nls = <<>>
       THEN LET blocks == IF has
                          THEN [styled EXCEPT ![para_id].byte_len = @ + Len(text)]
                          ELSE styled
            IN {finish(blocks, index, doc.next_para_id, <<>>, overflow1) :
                   index \in update_lengths_after(idx, position, Len(text))}
       ELSE IF ~has
       THEN {finish(styled, idx, doc.next_para_id, <<>>, overflow1)}
       ELSE LET meta == styled[para_id]
                offset_in_para == saturating_sub(position, para_start)
                first_seg_len == offset_in_para + nls[1]
                sp == split_styles(meta.styles, first_seg_len)
                st0 == [rest_styles |-> sp[2],
                        next_para_id |-> doc.next_para_id,
                        blocks |-> [styled EXCEPT ![para_id].byte_len = first_seg_len,
                                                  ![para_id].styles = sp[1]],
                        index |-> update_length(idx, para_id, first_seg_len),
                        created |-> <<>>,
                        current_start |-> meta.start_offset + first_seg_len + 1,
                        offset_in_para |-> offset_in_para,
                        overflow |-> overflow1
                                     \/ AddOverflows(meta.start_offset, first_seg_len + 1)]
                st == segment_loop(st0, nls, 1, para_id, meta.byte_len + Len(text))
            IN {finish(st.blocks, st.index, st.next_para_id, st.created, st.overflow)}

\* the "for para_id in paras_to_check" loop of apply_delete (several paragraphs)
RECURSIVE delete_loop(_, _, _, _, _, _, _)
delete_loop(st, paras, start_para, end_para, start, end, start_para_offset) ==
    IF paras = <<>> THEN st
    ELSE LET para_id == Head(paras)
             rest == Tail(paras)
             next(st2) == delete_loop(st2, rest, start_para, end_para,
                                      start, end, start_para_offset)
         IN IF para_id = start_para THEN next([st EXCEPT !.in_range = TRUE])
            ELSE IF ~st.in_range THEN next(st)
            ELSE IF para_id = end_para
            THEN LET merge == end_para \in DOMAIN st.blocks
                              /\ start_para \in DOMAIN st.blocks
                     end_meta == st.blocks[end_para]
                     start_meta == st.blocks[start_para]
                     offset_in_end == saturating_sub(end, end_meta.start_offset)
                     remaining_in_end == saturating_sub(end_meta.byte_len, offset_in_end)
                     offset_in_start == saturating_sub(start, start_para_offset)
                     end_styles == on_delete(end_meta.styles, 0, offset_in_end)
                     merged == [start_meta EXCEPT
                                  !.byte_len = offset_in_start + remaining_in_end,
                                  !.styles = append_styles(
                                      on_delete(@, offset_in_start, start_meta.byte_len),
                                      end_styles, offset_in_start)]
                     blocks1 == IF merge THEN Put(st.blocks, start_para, merged)
                                ELSE st.blocks
                 IN next([st EXCEPT
                            !.blocks = Del(blocks1, end_para),
                            !.index = ParagraphIndex_remove(@, end_para),
                            !.deleted = Append(@, end_para),
                            !.in_range = FALSE,
                            !.overflow = @ \/ (merge /\
                                (\/ on_delete_overflows(start_meta.styles, offset_in_start,
                                                        start_meta.byte_len)
                                 \/ on_delete_overflows(end_meta.styles, 0, offset_in_end)))])
            ELSE next([st EXCEPT
                         !.blocks = Del(@, para_id),
                         !.index = ParagraphIndex_remove(@, para_id),
                         !.deleted = Append(@, para_id)])

apply_delete(doc, start, end) ==
    IF ~ULt(start, end)
    THEN {Outcome(doc, EditResult(doc.version, <<>>, <<>>, <<>>,
                                  offset_to_position(doc, start)), FALSE)}
    ELSE
    LET idx == doc.paragraph_index
        at == para_at_offset(idx, start)
        start_para == at[1]
        start_para_offset == at[2]
        end_para == para_at_offset(idx, saturating_sub(end, 1))[1]
        content == Rope_delete(doc.content, start, end)
        delete_len == end - start
        finish(blocks, index, deleted, overflow) ==
            LET d == [doc EXCEPT
                        !.content = content,
                        !.blocks = shift_block_offsets_after(blocks, start, 0 - delete_len),
                        !.paragraph_index = index]
            IN Outcome(d,
                       EditResult(doc.version, <<start_para>>, <<>>, deleted,
                                  offset_to_position(d, start)),
                       overflow_checks /\ overflow)
    IN IF content.kind = "Panic"
       THEN {Outcome(doc, EditResult(doc.version, <<>>, <<>>, <<>>, DocPosition(0, 0)), TRUE)}
       ELSE IF start_para = end_para
       THEN LET has == start_para \in DOMAIN doc.blocks
                meta == doc.blocks[start_para]
                offset_in_para == start - meta.start_offset
                blocks == IF has
                          THEN Put(doc.blocks, start_para,
                                   [meta EXCEPT
                                      !.styles = on_delete(@, offset_in_para,
                                                           offset_in_para + delete_len),
                                      !.byte_len = saturating_sub(@, delete_len)])
                          ELSE doc.blocks
                overflow == has /\ (\/ SubOverflows(start, meta.start_offset)
                                    \/ on_delete_overflows(meta.styles, offset_in_para,
                                                           offset_in_para + delete_len))
            IN {finish(blocks, index, <<>>, overflow) :
                   index \in update_lengths_after(idx, start, 0 - delete_len)}
       ELSE LET st == delete_loop([blocks |-> doc.blocks, index |-> idx, deleted |-> <<>>,
                                   in_range |-> FALSE, overflow |-> FALSE],
                                  idx.order, start_para, end_para,
                                  start, end, start_para_offset)
            IN {finish(st.blocks, st.index, st.deleted, st.overflow)}

\* ------------------------------------------------------------------ edit ops
Insert(position, text) == [type |-> "Insert", position |-> position, text |-> text]
Delete(start, end) == [type |-> "Delete", start |-> start, end |-> end]
Transaction(ops) == [type |-> "Transaction", ops |-> ops]

\* the version bump at the head of apply_edit
bump_version(version) == version + 1

RECURSIVE apply_edit(_, _)
RECURSIVE transaction_loop(_, _, _)

\* "for op in ops" of the Transaction arm: acc is an Outcome holding the merged result
transaction_loop(acc, ops, i) ==
    IF i > Len(ops) \/ acc.panic THEN {acc}
    ELSE UNION {
        transaction_loop(
            Outcome(sub.doc,
                    [acc.result EXCEPT
                       !.affected_paragraphs = @ \o sub.result.affected_paragraphs,
                       !.created_paragraphs = @ \o sub.result.created_paragraphs,
                       !.deleted_paragraphs = @ \o sub.result.deleted_paragraphs,
                       !.new_cursor = sub.result.new_cursor],
                    sub.panic),
            ops, i + 1) : sub \in apply_edit(acc.doc, ops[i])}

apply_edit(doc, op) ==
    LET d == [doc EXCEPT !.version = bump_version(@)] IN
    CASE op.type = "Insert" -> apply_insert(d, op.position, op.text)
      [] op.type = "Delete" -> apply_delete(d, op.start, op.end)
      [] op.type = "Transaction" ->
            transaction_loop(
                Outcome(d, EditResult(d.version, <<>>, <<>>, <<>>, DocPosition(0, 0)), FALSE),
                op.ops, 1)

\* the "for para_id in self.paragraph_index.iter()" loop of format_range
paras_to_update(order, p_start_id, p_end_id) ==
    LET from == FirstPos(order, LAMBDA id : id = p_start_id)
    IN IF from = 0 THEN <<>>
       ELSE LET tail == Drop(order, from - 1)
                to == FirstPos(tail, LAMBDA id : id = p_end_id)
            IN IF to = 0 THEN tail ELSE Take(tail, to)

RECURSIVE format_loop(_, _, _, _, _)
format_loop(st, paras, start, end, font_id) ==
    IF paras = <<>> THEN st
    ELSE LET para_id == Head(paras)
             meta == st.blocks[para_id]
             p_start == meta.start_offset
             p_end == p_start + meta.byte_len
             range_start == UMax(start, p_start)
             range_end == UMin(end, p_end)
             st2 == IF para_id \notin DOMAIN st.blocks THEN st
                    ELSE IF ULt(range_start, range_end)
                    THEN [st EXCEPT
                            !.blocks[para_id].styles =
                                BlockMeta_format_range(@, range_start - p_start,
                                                       range_end - p_start, font_id),
                            !.affected = Append(@, para_id),
                            !.overflow = @ \/ AddOverflows(p_start, meta.byte_len)]
                    ELSE [st EXCEPT !.overflow = @ \/ AddOverflows(p_start, meta.byte_len)]
         IN format_loop(st2, Tail(paras), start, end, font_id)

format_range(doc, start, end, font_id) ==
    IF ~ULt(start, end)
    THEN Outcome(doc, EditResult(doc.version, <<>>, <<>>, <<>>,
                                 offset_to_position(doc, start)), FALSE)
    ELSE LET idx == doc.paragraph_index
             p_start_id == para_at_offset(idx, start)[1]
             p_end_id == para_at_offset(idx, saturating_sub(end, 1))[1]
             st == format_loop([blocks |-> doc.blocks, affected |-> <<>>, overflow |-> FALSE],
                               paras_to_update(idx.order, p_start_id, p_end_id),
                               start, end, font_id)
             d == [doc EXCEPT !.version = @ + 1, !.blocks = st.blocks]
         IN Outcome(d, EditResult(d.version, st.affected, <<>>, <<>>,
                                  offset_to_position(d, end)),
                    overflow_checks /\ st.overflow)

Reverse(s) == [i \in 1..Len(s) |-> s[Len(s) + 1 - i]]

RECURSIVE compute_reverse(_, _)
compute_reverse(doc, op) ==
    CASE op.type = "Insert" -> Delete(op.position, op.position + Len(op.text))
      [] op.type = "Delete" -> Insert(op.start, text_range(doc, op.start, op.end))
      [] op.type = "Transaction" ->
            Transaction([i \in 1..Len(op.ops) |->
                            compute_reverse(doc, op.ops[Len(op.ops) + 1 - i])])

\* compute_reverse does not return: text_range of a Delete with end < start
RECURSIVE compute_reverse_panics(_)
compute_reverse_panics(op) ==
    CASE op.type = "Delete" -> slice_panics(op.start, op.end)
      [] op.type = "Transaction" ->
            \E i \in 1..Len(op.ops) : compute_reverse_panics(op.ops[i])
      [] OTHER -> FALSE

\* ------------------------------------------------------------------ grapheme steps
\* over text whose bytes are one grapheme each
next_grapheme_offset(doc, offset) ==
    LET n == Len(Document_text(doc))
    IN IF ULt(offset, n) THEN offset + 1 ELSE n

prev_grapheme_offset(doc, offset) ==
    LET n == Len(Document_text(doc))
    IN IF offset = 0 \/ n = 0 THEN 0
       ELSE IF ULe(offset, n) THEN offset - 1 ELSE n - 1

\* ------------------------------------------------------------------ cursor, selection
Cursor(position) == [position |-> position, preferred_x |-> None]
Selection(anchor, active) == [anchor |-> anchor, active |-> active]

\* Ord for DocPosition: by para_id, then by offset
DocPosition_le(a, b) ==
    IF a.para_id # b.para_id THEN a.para_id < b.para_id ELSE ULe(a.offset, b.offset)

ordered(sel) ==
    IF DocPosition_le(sel.anchor, sel.active)
    THEN <<sel.anchor, sel.active>>
    ELSE <<sel.active, sel.anchor>>

\* ------------------------------------------------------------------ undo manager
max_depth == 100

UndoTransaction(forward_ops, reverse_ops, cursor_before, selection_before) ==
    [forward_ops |-> forward_ops, reverse_ops |-> reverse_ops,
     cursor_before |-> cursor_before, selection_before |-> selection_before]

UndoManager_new(depth) ==
    [undo_stack |-> <<>>, redo_stack |-> <<>>, max_depth |-> depth, pending |-> None]

begin_transaction(um, cursor, selection) ==
    [um EXCEPT !.pending = UndoTransaction(<<>>, <<>>, cursor, selection)]

record_edit(um, forward, reverse) ==
    IF um.pending = None THEN um
    ELSE [um EXCEPT !.pending.forward_ops = Append(@, forward),
                    !.pending.reverse_ops = Append(@, reverse)]

should_merge(um, txn) == FALSE

merge_with_last(um, txn) ==
    IF um.undo_stack = <<>> THEN um
    ELSE [um EXCEPT !.undo_stack[Len(um.undo_stack)] =
             [@ EXCEPT !.forward_ops = @ \o txn.forward_ops,
                       !.reverse_ops = @ \o txn.reverse_ops]]

\* commit without the "while self.undo_stack.len() > self.max_depth" loop
commit_without_limit(um) ==
    IF um.pending = None THEN um
    ELSE IF um.pending.forward_ops = <<>> THEN [um EXCEPT !.pending = None]
    ELSE [um EXCEPT !.pending = None, !.redo_stack = <<>>,
                    !.undo_stack = Append(@, um.pending)]

\* commit without "self.redo_stack.clear()"
commit_keeping_redo(um) ==
    IF um.pending = None THEN um
    ELSE IF um.pending.forward_ops = <<>> THEN [um EXCEPT !.pending = None]
    ELSE LET n == Len(um.undo_stack) + 1
         IN [um EXCEPT !.pending = None,
                       !.undo_stack = IF n > um.max_depth
                                      THEN SubSeq(Append(@, um.pending), n - um.max_depth + 1, n)
                                      ELSE Append(@, um.pending)]

commit(um) ==
    IF um.pending = None THEN um
    ELSE LET txn == um.pending
             taken == [um EXCEPT !.pending = None]
         IN IF txn.forward_ops = <<>> THEN taken
            ELSE LET cleared == [taken EXCEPT !.redo_stack = <<>>]
                     pushed == IF should_merge(cleared, txn)
                               THEN merge_with_last(cleared, txn)
                               ELSE [cleared EXCEPT !.undo_stack = Append(@, txn)]
                     n == Len(pushed.undo_stack)
                 IN IF n > um.max_depth
                    THEN [pushed EXCEPT !.undo_stack = SubSeq(@, n - um.max_depth + 1, n)]
                    ELSE pushed

\* "for op in ops { document.apply_edit(op) }": st is the Outcome so far
RECURSIVE apply_ops(_, _, _)
apply_ops(st, ops, i) ==
    IF i > Len(ops) \/ st.panic THEN {st}
    ELSE UNION {apply_ops(out, ops, i + 1) : out \in apply_edit(st.doc, ops[i])}

\* UndoManager::undo on a non-empty undo stack: the outcomes of replaying
\* reverse_ops last to first, each with the manager and the UndoResult
UndoManager_undo(um, doc) ==
    LET n == Len(um.undo_stack)
        txn == um.undo_stack[n]
    IN {[doc |-> out.doc, panic |-> out.panic,
         um |-> [um EXCEPT !.undo_stack = Take(@, n - 1),
                           !.redo_stack = Append(@, txn)],
         cursor |-> txn.cursor_before,
         selection |-> txn.selection_before] :
           out \in apply_ops(Outcome(doc, None, FALSE), Reverse(txn.reverse_ops), 1)}

\* redo that pushes onto the undo stack without "self.redo_stack.pop()"
UndoManager_redo_without_pop(um, doc) ==
    LET txn == um.redo_stack[Len(um.redo_stack)]
    IN {[doc |-> out.doc, panic |-> out.panic,
         um |-> [um EXCEPT !.undo_stack = Append(@, txn)],
         cursor |-> IF out.result = None THEN txn.cursor_before
                    ELSE Cursor(out.result.new_cursor),
         selection |-> None] :
           out \in apply_ops(Outcome(doc, None, FALSE), txn.forward_ops, 1)}

\* UndoManager::redo on a non-empty redo stack
UndoManager_redo(um, doc) ==
    LET n == Len(um.redo_stack)
        txn == um.redo_stack[n]
    IN {[doc |-> out.doc, panic |-> out.panic,
         um |-> [um EXCEPT !.redo_stack = Take(@, n - 1),
                           !.undo_stack = Append(@, txn)],
         cursor |-> IF out.result = None THEN txn.cursor_before
                    ELSE Cursor(out.result.new_cursor),
         selection |-> None] :
           out \in apply_ops(Outcome(doc, None, FALSE), txn.forward_ops, 1)}

\* ------------------------------------------------------------------ editor
Editor_new ==
    [cursor |-> Cursor(DocPosition(0, 0)), selection |-> None,
     undo_manager |-> UndoManager_new(max_depth), layout_dirty |-> TRUE]

\* ------------------------------------------------------------------ layout
\* Lengths are in units of the default font: FontLibrary::set(FontId(0), ..)
\* with line_height 1.0 and every character 1.0 wide, so that sums of heights
\* and widths are exact in f32.  The library holds no other font, so a style
\* span's font falls back to this one (line_break.rs:67-69).
FontMetrics_default == [line_height |-> 1, default_width |-> 1]

LayoutConstraints(content_width, content_height) ==
    [content_width |-> content_width, content_height |-> content_height]

\* constraints whose margin_left matters: the x of a cursor position includes it
LayoutConstraints_with_margin(content_width, content_height, margin_left) ==
    [content_width |-> content_width, content_height |-> content_height,
     margin_left |-> margin_left]

\* LayoutConstraints::default(): 468 x 648 pixels of content, which the default
\* font (8.41 wide, 16.8 high) fills with 55 characters on each of 38 lines
LayoutConstraints_default == LayoutConstraints(55, 38)

\* a line of a paragraph: byte_range start..end, its clusters, height and width
LineLayout(start, end, clusters, line_height, width) ==
    [byte_range |-> <<start, end>>, clusters |-> clusters, height |-> line_height,
     width |-> width]

ClusterInfo(byte_offset, x, width) == [byte_offset |-> byte_offset, x |-> x, width |-> width]

\* char::is_whitespace for the characters of the model other than the newline
is_whitespace(ch) == ch = " "

\* the "for (byte_idx, grapheme)" loop of layout_paragraph over text[i..]; st holds
\* lines, line_start, x, clusters, last_break_point, last_break_x and
\* current_line_height.  Every character of the model is one byte wide.
RECURSIVE layout_loop(_, _, _, _, _)
layout_loop(text, i, st, effective_width, metrics) ==
    IF i > Len(text)
    THEN Append(st.lines,
                LineLayout(st.line_start, Len(text), st.clusters,
                           IF st.current_line_height = 0
                           THEN metrics.line_height
                           ELSE st.current_line_height,
                           st.x))
    ELSE LET byte_idx == i - 1
             h == IF st.current_line_height > metrics.line_height
                  THEN st.current_line_height ELSE metrics.line_height
         IN IF text[i] = NL
            THEN layout_loop(text, i + 1,
                     [lines |-> Append(st.lines,
                                       LineLayout(st.line_start, byte_idx, st.clusters, h, st.x)),
                      line_start |-> byte_idx + 1, x |-> 0, clusters |-> <<>>,
                      last_break_point |-> None, last_break_x |-> st.last_break_x,
                      current_line_height |-> 0],
                     effective_width, metrics)
            ELSE LET cluster_width == metrics.default_width
                     \* potential break point after whitespace
                     bp == IF is_whitespace(text[i]) THEN Some(byte_idx + 1) ELSE st.last_break_point
                     bx == IF is_whitespace(text[i]) THEN st.x + cluster_width ELSE st.last_break_x
                     wrap == st.x + cluster_width > effective_width /\ st.clusters # <<>>
                     break_offset == IF bp # None THEN bp.some ELSE byte_idx
                     break_x == IF bp # None THEN bx ELSE st.x
                     line_clusters == SelectSeq(st.clusters, LAMBDA c : c.byte_offset < break_offset)
                     rest == SelectSeq(st.clusters, LAMBDA c : c.byte_offset >= break_offset)
                     line_width == IF line_clusters = <<>> THEN 0
                                   ELSE line_clusters[Len(line_clusters)].x
                                        + line_clusters[Len(line_clusters)].width
                     st1 == IF wrap
                            THEN [lines |-> Append(st.lines,
                                                   LineLayout(st.line_start, break_offset,
                                                              line_clusters, h, line_width)),
                                  line_start |-> break_offset,
                                  x |-> st.x - break_x,
                                  clusters |-> [k \in 1..Len(rest) |->
                                                   [rest[k] EXCEPT !.x = @ - break_x]],
                                  last_break_point |-> None, last_break_x |-> bx,
                                  current_line_height |-> metrics.line_height]
                            ELSE [st EXCEPT !.current_line_height = h,
                                            !.last_break_point = bp, !.last_break_x = bx]
                 IN layout_loop(text, i + 1,
                                [st1 EXCEPT !.x = @ + cluster_width,
                                            !.clusters = Append(@, ClusterInfo(byte_idx, st1.x, cluster_width))],
                                effective_width, metrics)

\* LineBreaker::layout_paragraph for a block of kind Paragraph whose font
\* library holds metrics for FontId(0)
layout_paragraph_in(para_id, text, max_width, metrics) ==
    LET lines == IF text = <<>>
                 THEN <<LineLayout(0, 0, <<>>, metrics.line_height, 0)>>
                 ELSE layout_loop(text, 1,
                                  [lines |-> <<>>, line_start |-> 0, x |-> 0, clusters |-> <<>>,
                                   last_break_point |-> None, last_break_x |-> 0,
                                   current_line_height |-> 0],
                                  max_width, metrics)
    IN [para_id |-> para_id, lines |-> lines,
        total_height |-> SeqSum([k \in 1..Len(lines) |-> lines[k].height]) + 16,
        content_hash |-> text]

\* layout_paragraph with the font library LayoutState holds
layout_paragraph(para_id, text, max_width) ==
    layout_paragraph_in(para_id, text, max_width, FontMetrics_default)

PageLayout(page_index, start_para, start_line, end_para, end_line) ==
    [page_index |-> page_index, start_para |-> start_para, start_line |-> start_line,
     end_para |-> end_para, end_line |-> end_line]

PageLayout_new(page_index) == PageLayout(page_index, 0, 0, 0, 0)

LayoutState_new(constraints) ==
    [paragraph_layouts |-> EmptyMap, pages |-> <<>>, constraints |-> constraints,
     dirty_paragraphs |-> {}, layout_version |-> 0, paragraph_y_offsets |-> EmptyMap]

\* the keys of f other than those in S
DelAll(f, S) == [x \in DOMAIN f \ S |-> f[x]]

invalidate(ls, edit_result) ==
    [ls EXCEPT
       !.dirty_paragraphs = @ \cup Range(edit_result.affected_paragraphs)
                              \cup Range(edit_result.created_paragraphs),
       !.paragraph_layouts = DelAll(@, Range(edit_result.deleted_paragraphs)),
       !.paragraph_y_offsets = DelAll(@, Range(edit_result.deleted_paragraphs))]

invalidate_all(ls) ==
    [ls EXCEPT !.dirty_paragraphs = @ \cup DOMAIN ls.paragraph_layouts]


\* the elements of a set of usize values in increasing order
RECURSIVE USetToSeq(_)
USetToSeq(S) ==
    IF S = {} THEN <<>>
    ELSE LET x == CHOOSE y \in S : \A z \in S : ULe(y, z)
         IN <<x>> \o USetToSeq(S \ {x})

\* ParagraphIndex::iter_from: offset_to_para.range(start_offset..) in key order
paragraphs_from(doc, start_offset) ==
    LET map == doc.paragraph_index.offset_to_para
        keys == USetToSeq({k \in DOMAIN map : ULe(start_offset, k)})
    IN [i \in 1..Len(keys) |-> map[keys[i]]]

\* ParagraphIndex::prev
prev_paragraph(doc, para_id) ==
    LET order == doc.paragraph_index.order
        at == {i \in 1..Len(order) : order[i] = para_id}
    IN IF at = {} THEN None
       ELSE LET pos == CHOOSE i \in at : \A j \in at : i <= j
            IN IF pos > 1 THEN Some(order[pos - 1]) ELSE None

\* the inner "for (line_idx, line)" loop of repaginate, from 0-based line_idx on;
\* st holds pages, current_page and y_on_page
RECURSIVE repaginate_lines(_, _, _, _, _)
repaginate_lines(st, para_id, lines, line_idx, content_height) ==
    IF line_idx >= Len(lines) THEN st
    ELSE LET line == lines[line_idx + 1]
             break == st.y_on_page + line.height > content_height /\ st.y_on_page > 0
             st1 == IF break
                    THEN [pages |-> Append(st.pages, st.current_page),
                          current_page |-> PageLayout(Len(st.pages) + 1, para_id, line_idx,
                                                      0, 0),
                          y_on_page |-> 0]
                    ELSE st
         IN repaginate_lines(
                [st1 EXCEPT !.current_page.end_para = para_id,
                            !.current_page.end_line = line_idx,
                            !.y_on_page = @ + line.height],
                para_id, lines, line_idx + 1, content_height)

\* the "for para_id in document.paragraphs_from(..)" loop of repaginate
RECURSIVE repaginate_loop(_, _, _, _)
repaginate_loop(st, paras, paragraph_layouts, content_height) ==
    IF paras = <<>> THEN st
    ELSE LET para_id == Head(paras)
         IN IF para_id \in DOMAIN paragraph_layouts
            THEN LET start_line_idx == IF para_id = st.current_page.start_para
                                       THEN st.current_page.start_line
                                       ELSE 0
                 IN repaginate_loop(
                        repaginate_lines(st, para_id, paragraph_layouts[para_id].lines,
                                         start_line_idx, content_height),
                        Tail(paras), paragraph_layouts, content_height)
            ELSE repaginate_loop(st, Tail(paras), paragraph_layouts, content_height)

\* LayoutState::repaginate: the new pages, and whether an addition overflowed
repaginate(ls, doc, start_page_idx) ==
    LET full == [pages |-> <<>>, current_page |-> PageLayout_new(0), y_on_page |-> 0,
                 start_iter_offset |-> 0, overflow |-> FALSE]
        idx == start_page_idx.some
        kept == Take(ls.pages, idx)
        last_page == kept[Len(kept)]
        last_para == last_page.end_para
        last_line == last_page.end_line
        meta == doc.blocks[last_para]
        has_meta == last_para \in DOMAIN doc.blocks
        init ==
            IF start_page_idx = None THEN full
            ELSE IF ~(idx < Len(ls.pages)) THEN full
            ELSE IF kept = <<>> THEN full
            ELSE IF last_para \notin DOMAIN ls.paragraph_layouts THEN full
            ELSE IF last_line + 1 < Len(ls.paragraph_layouts[last_para].lines)
            THEN [pages |-> kept,
                  current_page |-> PageLayout(idx, last_para, last_line + 1,
                                              last_para, last_line + 1),
                  y_on_page |-> 0,
                  start_iter_offset |-> IF has_meta THEN meta.start_offset ELSE 0,
                  overflow |-> FALSE]
            ELSE [pages |-> kept,
                  current_page |-> PageLayout_new(idx),
                  y_on_page |-> 0,
                  start_iter_offset |-> IF has_meta
                                        THEN meta.start_offset + meta.byte_len + 1
                                        ELSE 0,
                  overflow |-> has_meta
                               /\ (\/ AddOverflows(meta.start_offset, meta.byte_len)
                                   \/ AddOverflows(meta.start_offset + meta.byte_len, 1))]
        st == repaginate_loop([pages |-> init.pages, current_page |-> init.current_page,
                               y_on_page |-> init.y_on_page],
                              paragraphs_from(doc, init.start_iter_offset),
                              ls.paragraph_layouts, ls.constraints.content_height)
    IN [pages |-> Append(st.pages, st.current_page), overflow |-> init.overflow]

\* the "for para_id in document.paragraphs_from(start_offset)" loop of update_y_offsets
RECURSIVE y_offsets_loop(_, _, _, _)
y_offsets_loop(offsets, paras, y, paragraph_layouts) ==
    IF paras = <<>> THEN offsets
    ELSE LET para_id == Head(paras)
         IN y_offsets_loop(Put(offsets, para_id, y), Tail(paras),
                           IF para_id \in DOMAIN paragraph_layouts
                           THEN y + paragraph_layouts[para_id].total_height
                           ELSE y,
                           paragraph_layouts)

\* LayoutState::update_y_offsets: the new paragraph_y_offsets
update_y_offsets(ls, doc, start_from) ==
    LET prev == IF start_from = None THEN None ELSE prev_paragraph(doc, start_from.some)
        known == prev # None /\ prev.some \in DOMAIN ls.paragraph_y_offsets
        cleared == start_from = None \/ (prev # None /\ ~known)
        y == IF known
             THEN ls.paragraph_y_offsets[prev.some]
                  + (IF prev.some \in DOMAIN ls.paragraph_layouts
                     THEN ls.paragraph_layouts[prev.some].total_height ELSE 0)
             ELSE 0
        start_offset == IF known /\ start_from.some \in DOMAIN doc.blocks
                        THEN doc.blocks[start_from.some].start_offset
                        ELSE 0
    IN y_offsets_loop(IF cleared THEN EmptyMap ELSE ls.paragraph_y_offsets,
                      paragraphs_from(doc, start_offset), y, ls.paragraph_layouts)

\* LayoutState::paragraph_y
paragraph_y(ls, para_id) ==
    IF para_id \in DOMAIN ls.paragraph_y_offsets THEN ls.paragraph_y_offsets[para_id] ELSE 0

\* the page search of relayout, from 0-based page i on: the first page whose
\* start and end paragraphs have metadata and whose end paragraph reaches offset;
\* [idx, overflow], idx being None when no page is found
RECURSIVE find_start_page(_, _, _, _)
find_start_page(pages, i, doc, offset) ==
    IF i >= Len(pages) THEN [idx |-> None, overflow |-> FALSE]
    ELSE LET page == pages[i + 1]
             both == page.start_para \in DOMAIN doc.blocks
                     /\ page.end_para \in DOMAIN doc.blocks
             m == doc.blocks[page.end_para]
         IN IF both /\ AddOverflows(m.start_offset, m.byte_len) /\ overflow_checks
            THEN [idx |-> None, overflow |-> TRUE]
            ELSE IF both /\ ULe(offset, m.start_offset + m.byte_len)
            THEN [idx |-> Some(i), overflow |-> FALSE]
            ELSE find_start_page(pages, i + 1, doc, offset)

\* a relayout that lays out the dirty paragraphs only and paginates from the top
relayout_dirty_only(ls, doc) ==
    LET old == ls.paragraph_layouts
        dirty == ls.dirty_paragraphs
        ls1 == [ls EXCEPT !.paragraph_layouts =
                              [p \in DOMAIN old \cup dirty |->
                                  IF p \in dirty
                                  THEN layout_paragraph(p, paragraph_text(doc, p),
                                                        ls.constraints.content_width)
                                  ELSE old[p]],
                          !.dirty_paragraphs = {}]
    IN [layout |-> [ls1 EXCEPT !.pages = repaginate(ls1, doc, None).pages,
                               !.layout_version = doc.version],
        panic |-> FALSE]

\* LayoutState::relayout: the new LayoutState, and whether the call panicked
relayout(ls, doc) ==
    LET old == ls.paragraph_layouts
        dirty == ls.dirty_paragraphs
        missing == {p \in Range(paragraph_order(doc)) : p \notin DOMAIN old \cup dirty}
        changed_paragraphs == dirty \cup missing
        new_layout(p) == layout_paragraph(p, paragraph_text(doc, p),
                                          ls.constraints.content_width)
        paragraph_layouts == [p \in DOMAIN old \cup changed_paragraphs |->
                                 IF p \in changed_paragraphs THEN new_layout(p) ELSE old[p]]
        pagination_dirty ==
            \/ missing # {}
            \/ \E p \in dirty : p \notin DOMAIN old
                                \/ old[p].total_height # paragraph_layouts[p].total_height
        text_panics == \E p \in changed_paragraphs : paragraph_text_panics(doc, p)
        ls1 == [ls EXCEPT !.paragraph_layouts = paragraph_layouts, !.dirty_paragraphs = {}]
        offsets == {doc.blocks[p].start_offset : p \in changed_paragraphs \cap DOMAIN doc.blocks}
        min_offset == CHOOSE o \in offsets : \A q \in offsets : ULe(o, q)
        found == find_start_page(ls.pages, 0, doc, min_offset)
        start_para == IF ls.pages = <<>> \/ offsets = {} THEN None
                      ELSE IF found.idx # None THEN found.idx
                      ELSE Some(Len(ls.pages) - 1)
        repaginating == pagination_dirty \/ ls.pages = <<>>
        paged == repaginate(ls1, doc, start_para)
        ls2 == IF repaginating THEN [ls1 EXCEPT !.pages = paged.pages] ELSE ls1
        start_para_for_y_update ==
            IF repaginating /\ offsets # {}
            THEN Some(para_at_offset(doc.paragraph_index, min_offset)[1])
            ELSE None
        ls3 == IF start_para_for_y_update # None \/ ls2.paragraph_y_offsets = EmptyMap
               THEN [ls2 EXCEPT !.paragraph_y_offsets =
                                    update_y_offsets(ls2, doc, start_para_for_y_update)]
               ELSE ls2
    IN [layout |-> [ls3 EXCEPT !.layout_version = doc.version],
        panic |-> \/ text_panics
                  \/ repaginating /\ ls.pages # <<>> /\ offsets # {} /\ found.overflow
                  \/ repaginating /\ overflow_checks /\ paged.overflow]

\* ------------------------------------------------------------------ cursor placement
\* ParagraphLayout::line_at_offset: <<line index, line>> or None
line_at_offset(para_layout, byte_offset) ==
    LET lines == para_layout.lines
        holds(idx) == \/ /\ ULe(lines[idx].byte_range[1], byte_offset)
                         /\ ULt(byte_offset, lines[idx].byte_range[2])
                      \/ /\ byte_offset = lines[idx].byte_range[2]
                         /\ idx = Len(lines)
    IN IF \E idx \in 1..Len(lines) : holds(idx)
       THEN LET idx == CHOOSE k \in 1..Len(lines) : holds(k) /\ \A j \in 1..(k - 1) : ~holds(j)
            IN Some(<<idx - 1, lines[idx]>>)
       ELSE IF lines = <<>> THEN None
       ELSE Some(<<Len(lines) - 1, lines[Len(lines)]>>)

\* LineLayout::x_for_offset
x_for_offset(line, byte_offset) ==
    LET at(k) == ~ULt(line.clusters[k].byte_offset, byte_offset)
    IN IF \E k \in 1..Len(line.clusters) : at(k)
       THEN line.clusters[CHOOSE k \in 1..Len(line.clusters) :
                              at(k) /\ \A j \in 1..(k - 1) : ~at(j)].x
       ELSE line.width

Abs(d) == IF d < 0 THEN 0 - d ELSE d

\* the loop of LineLayout::offset_for_x over clusters[k..]; best_dist is None
\* while it is f32::MAX
RECURSIVE offset_for_x_loop(_, _, _, _, _)
offset_for_x_loop(clusters, k, x, best_offset, best_dist) ==
    IF k > Len(clusters) THEN best_offset
    ELSE LET cluster == clusters[k]
             dist == Abs(cluster.x - x)
             near == best_dist = None \/ dist < best_dist.some
             offset1 == IF near THEN cluster.byte_offset ELSE best_offset
             dist1 == IF near THEN Some(dist) ELSE best_dist
             end_dist == Abs(cluster.x + cluster.width - x)
             near_end == end_dist < dist1.some
         IN offset_for_x_loop(clusters, k + 1, x,
                              IF near_end THEN cluster.byte_offset + 1 ELSE offset1,
                              IF near_end THEN Some(end_dist) ELSE dist1)

\* LineLayout::offset_for_x
offset_for_x(line, x) == offset_for_x_loop(line.clusters, 1, x, line.byte_range[1], None)

\* LayoutState::position_to_x
position_to_x(ls, pos) ==
    IF pos.para_id \notin DOMAIN ls.paragraph_layouts THEN None
    ELSE LET found == line_at_offset(ls.paragraph_layouts[pos.para_id], pos.offset)
         IN IF found = None THEN None
            ELSE Some(x_for_offset(found.some[2], pos.offset) + ls.constraints.margin_left)

\* LayoutState::move_cursor_vertical: Some(position) or None
move_cursor_vertical(ls, doc, current_pos, delta_lines, preferred_x) ==
    IF current_pos.para_id \notin DOMAIN ls.paragraph_layouts THEN None
    ELSE LET para_layout == ls.paragraph_layouts[current_pos.para_id]
             found == line_at_offset(para_layout, current_pos.offset)
         IN IF found = None THEN None
            ELSE LET current_line_idx == found.some[1]
                     target_x == IF preferred_x # None THEN preferred_x.some
                                 ELSE x_for_offset(found.some[2], current_pos.offset)
                     target_line_idx == current_line_idx + delta_lines
                     order == paragraph_order(doc)
                     here == FirstPos(order, LAMBDA id : id = current_pos.para_id)
                     land(para, line) == Some(DocPosition(para, offset_for_x(line, target_x)))
                 IN IF target_line_idx >= 0 /\ target_line_idx < Len(para_layout.lines)
                    THEN land(current_pos.para_id, para_layout.lines[target_line_idx + 1])
                    ELSE IF delta_lines < 0
                    THEN \* take_while(|id| id != current).last()
                         LET before == IF here = 0 THEN Len(order) ELSE here - 1 IN
                         IF before = 0 THEN None
                         ELSE IF order[before] \notin DOMAIN ls.paragraph_layouts THEN None
                         ELSE LET prev_layout == ls.paragraph_layouts[order[before]] IN
                              IF prev_layout.lines = <<>> THEN None
                              ELSE land(order[before], prev_layout.lines[Len(prev_layout.lines)])
                    ELSE \* the first id after the first occurrence of current
                         IF here = 0 \/ here = Len(order) THEN None
                         ELSE IF order[here + 1] \notin DOMAIN ls.paragraph_layouts THEN None
                         ELSE LET next_layout == ls.paragraph_layouts[order[here + 1]] IN
                              IF next_layout.lines = <<>> THEN None
                              ELSE land(order[here + 1], next_layout.lines[1])

\* Editor::move_cursor(horizontal, vertical, extend_selection) on an editor
\* whose cursor position_to_offset accepts: the editor afterwards
move_cursor(ed, doc, ls, horizontal, vertical, extend_selection) ==
    LET sel0 == IF extend_selection /\ ed.selection = None
                THEN Selection(ed.cursor.position, ed.cursor.position)
                ELSE ed.selection
        offset == position_to_offset(doc, ed.cursor.position)
        new_offset == IF horizontal > 0 THEN next_grapheme_offset(doc, offset)
                      ELSE prev_grapheme_offset(doc, offset)
        cursor1 == IF horizontal # 0
                   THEN [ed.cursor EXCEPT !.position = offset_to_position(doc, new_offset),
                                          !.preferred_x = None]
                   ELSE ed.cursor
        new_pos == move_cursor_vertical(ls, doc, cursor1.position, vertical, cursor1.preferred_x)
        cursor2 == IF vertical # 0 /\ new_pos # None
                   THEN [cursor1 EXCEPT !.position = new_pos.some,
                                        !.preferred_x = IF @ = None
                                                        THEN position_to_x(ls, cursor1.position)
                                                        ELSE @]
                   ELSE cursor1
    IN [ed EXCEPT !.cursor = cursor2,
                  !.selection = IF extend_selection
                                THEN [sel0 EXCEPT !.active = cursor2.position]
                                ELSE None]

\* ------------------------------------------------------------------ render buffer
\* wasm/flat_buffer.rs.  A Vec is its sequence of elements and, next to it, its
\* capacity; u32 / f32 indices are zero-based as in the source.
MAGIC == 1297568324
SCHEMA_VERSION == 1
HEADER_SIZE == 12
BLOCK_PARAGRAPH == 0
BLOCK_LIST_ITEM == 7
FLAG_IS_LIST_ITEM == 2
U32_PER_LINE == 14
U32_PER_CURSOR == 2
F32_PER_CURSOR == 3
U32_PER_SELECTION == 1
F32_PER_SELECTION == 4
\* u32::MAX; a u32 is held as the integer congruent to it modulo 2^32 that the
\* checker can represent, so 0xFFFFFFFF is -1
U32_MAX == -1

\* `x as u32` of a usize: the same residue modulo 2^32
AsU32(x) == x

\* capacity of a Vec after its length has grown to required (amortised doubling)
grow_amortized(capacity, required) ==
    IF required <= capacity THEN capacity
    ELSE IF 2 * capacity >= required THEN 2 * capacity ELSE required

\* the UTF-8 bytes of one char and its UTF-16 length
Utf8Bytes(ch) ==
    CASE ch = "U+00E9" -> <<195, 169>>
      [] ch = "U+2022" -> <<226, 128, 162>>
      [] ch = "U+1F600" -> <<240, 159, 152, 128>>
      [] ch = "a" -> <<97>>
      [] ch = "b" -> <<98>>
      [] ch = "1" -> <<49>>
      [] ch = "." -> <<46>>
len_utf16(ch) == IF ch = "U+1F600" THEN 2 ELSE 1
as_bytes(text) == Flatten([i \in 1..Len(text) |-> Utf8Bytes(text[i])])
utf16_len(text) == SeqSum([i \in 1..Len(text) |-> len_utf16(text[i])])

\* ListMarker::display
ListMarker_display(marker) ==
    IF marker.type = "Bullet" THEN <<"U+2022">> ELSE <<"1", ".">>

block_kind_to_opcode(kind) ==
    IF kind.type = "ListItem" THEN <<BLOCK_LIST_ITEM, FLAG_IS_LIST_ITEM>>
    ELSE <<BLOCK_PARAGRAPH, 0>>

RenderBuffer_new ==
    [u32_data |-> <<>>, u32_capacity |-> 1024,
     f32_data |-> <<>>, f32_capacity |-> 1024,
     text_data |-> <<>>, text_capacity |-> 4096,
     style_data |-> <<>>, style_capacity |-> 512,
     pending_cursor |-> None,
     pending_selections |-> <<>>,
     utf16_text_offset |-> 0]

U32At(rb, i) == rb.u32_data[i + 1]
F32At(rb, i) == rb.f32_data[i + 1]

push_u32(rb, xs) ==
    [rb EXCEPT !.u32_data = @ \o xs,
               !.u32_capacity = grow_amortized(@, Len(rb.u32_data) + Len(xs))]
push_f32(rb, xs) ==
    [rb EXCEPT !.f32_data = @ \o xs,
               !.f32_capacity = grow_amortized(@, Len(rb.f32_data) + Len(xs))]
extend_text(rb, bytes) ==
    [rb EXCEPT !.text_data = @ \o bytes,
               !.text_capacity = grow_amortized(@, Len(rb.text_data) + Len(bytes))]
push_style(rb, xs) ==
    [rb EXCEPT !.style_data = @ \o xs,
               !.style_capacity = grow_amortized(@, Len(rb.style_data) + Len(xs))]
set_u32(rb, i, x) == [rb EXCEPT !.u32_data[i + 1] = x]

prepare(rb, u32_needed, f32_needed, text_needed) ==
    LET u32_target == u32_needed + 32
        f32_target == f32_needed + 32
        text_target == text_needed + 256
    IN [u32_data |-> <<>>,
        u32_capacity |-> IF rb.u32_capacity < u32_target THEN u32_target ELSE rb.u32_capacity,
        f32_data |-> <<>>,
        f32_capacity |-> IF rb.f32_capacity < f32_target THEN f32_target ELSE rb.f32_capacity,
        text_data |-> <<>>,
        text_capacity |-> IF rb.text_capacity < text_target THEN text_target ELSE rb.text_capacity,
        style_data |-> <<>>,
        style_capacity |-> IF rb.style_capacity < u32_target THEN u32_target ELSE rb.style_capacity,
        pending_cursor |-> None,
        pending_selections |-> <<>>,
        utf16_text_offset |-> 0]

\* version is a u64, held as its two 32-bit halves [hi, lo]
write_header(rb, version, page_count) ==
    push_u32(rb, <<MAGIC, SCHEMA_VERSION, version.lo, version.hi,
                   page_count, 0, 0, 0, 0, 0, 0, 0>>)

\* a cursor part that records the offsets after the record is written
finalize_cursor_offsets_late(rb) ==
    IF rb.pending_cursor # None
    THEN LET cursor == rb.pending_cursor.some
             r2 == push_u32(rb, <<AsU32(cursor.page_index), AsU32(cursor.utf16_offset_in_line)>>)
             r3 == push_f32(r2, <<cursor.x, cursor.y, cursor.height>>)
             r4 == set_u32(set_u32(r3, 8, AsU32(Len(r3.u32_data))), 10, AsU32(Len(r3.f32_data)))
         IN set_u32(r4, 5, 1)
    ELSE set_u32(set_u32(rb, 5, 0), 10, 0)

\* the cursor part of finalize
finalize_cursor(rb) ==
    IF rb.pending_cursor # None
    THEN LET cursor == rb.pending_cursor.some
             r1 == set_u32(set_u32(rb, 8, AsU32(Len(rb.u32_data))), 10, AsU32(Len(rb.f32_data)))
             r2 == push_u32(r1, <<AsU32(cursor.page_index), AsU32(cursor.utf16_offset_in_line)>>)
             r3 == push_f32(r2, <<cursor.x, cursor.y, cursor.height>>)
         IN set_u32(r3, 5, 1)
    ELSE set_u32(set_u32(rb, 5, 0), 10, 0)

\* the selection part of finalize
finalize_selections(rb) ==
    IF rb.pending_selections # <<>>
    THEN LET sels == rb.pending_selections
             r1 == set_u32(set_u32(rb, 9, AsU32(Len(rb.u32_data))), 11, AsU32(Len(rb.f32_data)))
             r2 == push_u32(r1, [i \in 1..Len(sels) |-> AsU32(sels[i].page_index)])
             r3 == push_f32(r2, Flatten([i \in 1..Len(sels) |->
                                   <<sels[i].x, sels[i].y, sels[i].width, sels[i].height>>]))
         IN set_u32(r3, 6, AsU32(Len(sels)))
    ELSE set_u32(set_u32(rb, 6, 0), 11, 0)

\* finalize without the text length synchronisation
finalize_stale_text_len(rb) ==
    IF Len(rb.u32_data) < HEADER_SIZE THEN rb
    ELSE finalize_selections(finalize_cursor(rb))

finalize(rb) ==
    IF Len(rb.u32_data) < HEADER_SIZE THEN rb
    ELSE LET r == finalize_selections(finalize_cursor(rb))
         IN set_u32(r, 7, AsU32(Len(r.text_data)))

\* validate_text_offsets: TRUE when no debug assertion fails.  The walk reads the
\* page count and the line counts stored in the buffer.
RECURSIVE validate_lines(_, _, _)
validate_lines(rb, idx, remaining) ==
    IF remaining = 0 \/ idx + U32_PER_LINE > Len(rb.u32_data)
    THEN [ok |-> TRUE, idx |-> idx]
    ELSE LET text_offset == U32At(rb, idx)
             text_length == U32At(rb, idx + 1)
             marker_offset == U32At(rb, idx + 6)
             marker_length == U32At(rb, idx + 7)
             text_len == Len(rb.text_data)
         IN IF /\ text_offset + text_length <= text_len
               /\ (marker_length > 0 => marker_offset + marker_length <= text_len)
            THEN validate_lines(rb, idx + U32_PER_LINE, remaining - 1)
            ELSE [ok |-> FALSE, idx |-> idx]

RECURSIVE validate_pages(_, _, _)
validate_pages(rb, idx, remaining) ==
    IF remaining = 0 \/ idx + 1 >= Len(rb.u32_data) THEN TRUE
    ELSE LET r == validate_lines(rb, idx + 2, U32At(rb, idx + 1))
         IN r.ok /\ validate_pages(rb, r.idx, remaining - 1)

validate_text_offsets(rb) == validate_pages(rb, HEADER_SIZE, U32At(rb, 4))

\* begin_page: the buffer and the returned index of the line count
begin_page(rb, page_index, y_offset, width, height_) ==
    [rb |-> push_f32(push_u32(rb, <<AsU32(page_index), 0>>), <<y_offset, width, height_>>),
     line_count_idx |-> Len(rb.u32_data) + 1]

set_line_count(rb, idx, count) ==
    IF idx < Len(rb.u32_data) THEN set_u32(rb, idx, count) ELSE rb

\* list_marker and selection_range are Options; styles are <<start, len, font_id>>
write_line(rb, x, y, text, block_type, flags, list_marker, selection_range, styles) ==
    LET text_offset == AsU32(Len(rb.text_data))
        r1 == extend_text(rb, as_bytes(text))
        text_len == AsU32(Len(as_bytes(text)))
        text_utf16_offset == AsU32(rb.utf16_text_offset)
        text_utf16_len == AsU32(utf16_len(text))
        r2 == [r1 EXCEPT !.utf16_text_offset = @ + text_utf16_len]
        marker_offset == AsU32(Len(r2.text_data))
        has_marker == list_marker # None
        r3 == IF has_marker
              THEN [extend_text(r2, as_bytes(list_marker.some))
                        EXCEPT !.utf16_text_offset = @ + AsU32(utf16_len(list_marker.some))]
              ELSE r2
        marker_len == IF has_marker THEN AsU32(Len(as_bytes(list_marker.some))) ELSE 0
        marker_utf16_offset == IF has_marker THEN AsU32(r2.utf16_text_offset) ELSE 0
        marker_utf16_len == IF has_marker THEN AsU32(utf16_len(list_marker.some)) ELSE 0
        sel_start == IF selection_range # None THEN AsU32(selection_range.some[1]) ELSE U32_MAX
        sel_end == IF selection_range # None THEN AsU32(selection_range.some[2]) ELSE U32_MAX
        style_start_idx == AsU32(Len(r3.style_data))
        style_count == AsU32(Len(styles))
        r4 == push_style(r3, Flatten([i \in 1..Len(styles) |->
                                 <<AsU32(styles[i][1]), AsU32(styles[i][2]), styles[i][3]>>]))
        r5 == push_u32(r4, <<text_offset, text_len, text_utf16_offset, text_utf16_len,
                             block_type, flags, marker_offset, marker_len,
                             marker_utf16_offset, marker_utf16_len,
                             sel_start, sel_end, style_start_idx, style_count>>)
    IN push_f32(r5, <<x, y>>)

PendingCursor(x, y, caret_height, page_index, utf16_offset_in_line) ==
    [x |-> x, y |-> y, height |-> caret_height, page_index |-> page_index,
     utf16_offset_in_line |-> utf16_offset_in_line]

PendingSelection(x, y, width, rect_height, page_index) ==
    [x |-> x, y |-> y, width |-> width, height |-> rect_height, page_index |-> page_index]

write_cursor(rb, x, y, caret_height, page_index, utf16_offset_in_line) ==
    [rb EXCEPT !.pending_cursor = Some(PendingCursor(x, y, caret_height, page_index, utf16_offset_in_line))]

write_selection(rb, x, y, width, rect_height, page_index) ==
    [rb EXCEPT !.pending_selections = Append(@, PendingSelection(x, y, width, rect_height, page_index))]

\* ------------------------------------------------------------------ inputs
InsertTexts == {<<"a">>, <<NL>>, <<"a", NL, "b">>, <<NL, NL>>}
TxnTexts == {<<"a">>, <<NL>>}
InitTexts == {<<"a", NL, "b">>}
Fonts == {1, 2}

\* Insert / Delete ops with in-range offsets for a text of length len
SimpleOps(len, texts) ==
    {Insert(p, t) : p \in 0..len, t \in texts}
    \cup UNION {{Delete(a, b) : b \in a..len} : a \in 0..len}

\* the Transactions offered for a text of length len: none, one or two child ops,
\* each in range for the text its predecessors leave
TxnInputs(len) ==
    {<<>>}
    \cup {<<op>> : op \in SimpleOps(len, TxnTexts)}
    \cup {<<Insert(p, <<NL>>), Insert(p + 1, <<"a">>)>> : p \in 0..len}
    \cup {<<Insert(p, <<"a">>), Delete(p, p + 1)>> : p \in 0..len}
    \cup {<<Delete(p - 1, p), Delete(p - 2, p - 1)>> : p \in 2..len}
    \cup {<<Delete(p, p + 1), Delete(p, p + 1)>> : p \in 0..(len - 2)}
    \cup {<<Delete(p, p + 1), Insert(p, <<"a">>)>> : p \in 0..(len - 1)}

RECURSIVE OpInserted(_)
OpInserted(op) ==
    CASE op.type = "Insert" -> Len(op.text)
      [] op.type = "Transaction" -> SeqSum([i \in 1..Len(op.ops) |-> OpInserted(op.ops[i])])
      [] OTHER -> 0

RECURSIVE OpNewlines(_)
OpNewlines(op) ==
    CASE op.type = "Insert" -> CountNL(op.text)
      [] op.type = "Transaction" -> SeqSum([i \in 1..Len(op.ops) |-> OpNewlines(op.ops[i])])
      [] OTHER -> 0

\* the model offers op only while the bounds leave room for it
WithinBounds(doc, op) ==
    /\ doc.version < MaxVersion
    /\ Len(Document_text(doc)) + OpInserted(op) <= MaxLen
    /\ doc.next_para_id + OpNewlines(op) <= MaxParaId

\* ------------------------------------------------------------------ state machine
vars == <<overflow_checks, document, panicked, last, used_ids, editor, hist, undo_manager, rope, layout, render_buffer>>

NoCall == [call |-> "none", op |-> None, result |-> None, reverse |-> None,
           text_before |-> <<>>, version_before |-> 0]

\* the Editor calls so far: the last two calls and what they returned, the name
\* of the call before them, the text
\* before the earlier of them, the text at construction, and how many calls of
\* each sort were made. phase is "edits" while only insert_text / delete were
\* called, "undos" while those were followed by undo calls only.
NoHist ==
    [call |-> "none", ret |-> FALSE, text_before |-> <<>>, undoable |-> FALSE,
     prev_call |-> "none", prev_ret |-> FALSE, prev_text |-> <<>>, prev2_call |-> "none",
     prev_undoable |-> FALSE, initial_text |-> <<>>,
     phase |-> "edits", edits |-> 0, moves |-> 0, replays |-> 0]

Init ==
    /\ overflow_checks \in BOOLEAN
    /\ document \in {Document_new} \cup {Document_from_text(t) : t \in InitTexts}
    /\ panicked = FALSE
    /\ last = NoCall
    /\ used_ids = DOMAIN document.blocks
    /\ editor = Editor_new
    /\ hist = NoHist
    /\ undo_manager = UndoManager_new(max_depth)
    /\ rope = Empty
    /\ layout = LayoutState_new(LayoutConstraints_default)
    /\ render_buffer = RenderBuffer_new

\* a top-level Document.apply_edit(op); the caller computed op's reverse first
DoApplyEdit(call, op) ==
    /\ ~panicked
    /\ WithinBounds(document, op)
    /\ IF compute_reverse_panics(op)
       THEN panicked' = TRUE /\ UNCHANGED <<document, last, used_ids>>
       ELSE \E out \in apply_edit(document, op) :
              IF out.panic
              THEN panicked' = TRUE /\ UNCHANGED <<document, last, used_ids>>
              ELSE /\ document' = out.doc
                   /\ last' = [call |-> call, op |-> op, result |-> out.result,
                               reverse |-> compute_reverse(document, op),
                               text_before |-> Document_text(document),
                               version_before |-> document.version]
                   /\ used_ids' = used_ids \cup DOMAIN out.doc.blocks
                   /\ UNCHANGED panicked
    /\ UNCHANGED <<overflow_checks, editor, hist, undo_manager, rope, layout, render_buffer>>

ApplyInsert ==
    \E p \in 0..Len(Document_text(document)), t \in InsertTexts :
        DoApplyEdit("insert", Insert(p, t))

ApplyDelete ==
    \E a \in 0..Len(Document_text(document)), b \in 0..Len(Document_text(document)) :
        a <= b /\ DoApplyEdit("delete", Delete(a, b))

ApplyTransaction ==
    \E ops \in TxnInputs(Len(Document_text(document))) :
        DoApplyEdit("transaction", Transaction(ops))

\* apply the reverse computed before the last edit (what UndoManager::undo replays)
ApplyReverse ==
    /\ ~panicked
    /\ last.call \in {"insert", "delete", "transaction"}
    /\ \E out \in apply_edit(document, last.reverse) :
          IF out.panic
          THEN panicked' = TRUE /\ UNCHANGED <<document, last, used_ids>>
          ELSE /\ document' = out.doc
               /\ last' = [last EXCEPT !.call = "reverse", !.op = last.reverse,
                                       !.result = out.result, !.reverse = None,
                                       !.version_before = document.version]
               /\ used_ids' = used_ids \cup DOMAIN out.doc.blocks
               /\ UNCHANGED panicked
    /\ UNCHANGED <<overflow_checks, editor, hist, undo_manager, rope, layout, render_buffer>>

FormatRange ==
    /\ ~panicked
    /\ document.version < MaxVersion
    /\ \E a \in 0..Len(Document_text(document)), b \in 0..Len(Document_text(document)),
          f \in Fonts :
          /\ a <= b
          /\ LET out == format_range(document, a, b, f) IN
             IF out.panic
             THEN panicked' = TRUE /\ UNCHANGED <<document, last, used_ids>>
             ELSE /\ document' = out.doc
                  /\ last' = [call |-> "format_range", op |-> [type |-> "Format", start |-> a, end |-> b, font_id |-> f],
                              result |-> out.result, reverse |-> None,
                              text_before |-> Document_text(document),
                              version_before |-> document.version]
                  /\ UNCHANGED <<panicked, used_ids>>
    /\ UNCHANGED <<overflow_checks, editor, hist, undo_manager, rope, layout, render_buffer>>

Next == ApplyInsert \/ ApplyDelete \/ ApplyTransaction \/ ApplyReverse \/ FormatRange

Spec == Init /\ [][Next]_vars

\* the same calls on a document built from three empty paragraphs
ThreeParagraphs == <<NL, NL>>

InitThree ==
    /\ overflow_checks \in BOOLEAN
    /\ document = Document_from_text(ThreeParagraphs)
    /\ panicked = FALSE
    /\ last = NoCall
    /\ used_ids = DOMAIN document.blocks
    /\ editor = Editor_new
    /\ hist = NoHist
    /\ undo_manager = UndoManager_new(max_depth)
    /\ rope = Empty
    /\ layout = LayoutState_new(LayoutConstraints_default)
    /\ render_buffer = RenderBuffer_new

SpecThree == InitThree /\ [][Next]_vars

\* format_range, Insert and Delete on a document of one paragraph of three characters
OneParagraph == <<"a", "b", "c">>

\* and on a document of two paragraphs, the second two characters long
TwoParagraphs == <<"a", NL, "b", "c">>

StyleInit ==
    /\ overflow_checks \in BOOLEAN
    /\ document \in {Document_from_text(OneParagraph), Document_from_text(TwoParagraphs)}
    /\ panicked = FALSE
    /\ last = NoCall
    /\ used_ids = DOMAIN document.blocks
    /\ editor = Editor_new
    /\ hist = NoHist
    /\ undo_manager = UndoManager_new(max_depth)
    /\ rope = Empty
    /\ layout = LayoutState_new(LayoutConstraints_default)
    /\ render_buffer = RenderBuffer_new

StyleNext == ApplyInsert \/ ApplyDelete \/ FormatRange

StyleSpec == StyleInit /\ [][StyleNext]_vars

\* Document.apply_edit(Delete { start, end }) with end past the end of the text
\* or with start >= end; the call is recorded whether or not it panics
ApplyDeleteOutOfRange ==
    /\ ~panicked
    /\ document.version < MaxVersion
    /\ \E a \in 0..(Len(Document_text(document)) + MaxBeyond),
          b \in 0..(Len(Document_text(document)) + MaxBeyond) :
          /\ b > Len(Document_text(document)) \/ a >= b
          /\ \E out \in apply_edit(document, Delete(a, b)) :
                /\ panicked' = out.panic
                /\ document' = IF out.panic THEN document ELSE out.doc
                /\ last' = [call |-> "delete_out_of_range", op |-> Delete(a, b),
                            result |-> IF out.panic THEN None ELSE out.result,
                            reverse |-> None,
                            text_before |-> Document_text(document),
                            version_before |-> document.version]
                /\ used_ids' = used_ids \cup DOMAIN document'.blocks
    /\ UNCHANGED <<overflow_checks, editor, hist, undo_manager, rope, layout, render_buffer>>

NextOutOfRange == Next \/ ApplyDeleteOutOfRange

SpecOutOfRange == Init /\ [][NextOutOfRange]_vars

\* ------------------------------------------------------------------ editor state machine
EditorTexts == {<<"a">>, <<NL>>, <<"a", NL, "b">>}

\* Editor::new, or Editor::with_text over InitTexts
EditorInit ==
    /\ overflow_checks \in BOOLEAN
    /\ document \in {Document_new} \cup {Document_from_text(t) : t \in InitTexts}
    /\ panicked = FALSE
    /\ last = NoCall
    /\ used_ids = DOMAIN document.blocks
    /\ editor = Editor_new
    /\ hist = [NoHist EXCEPT !.initial_text = Document_text(document)]
    /\ undo_manager = UndoManager_new(max_depth)
    /\ rope = Empty
    /\ layout = LayoutState_new(LayoutConstraints_default)
    /\ render_buffer = RenderBuffer_new

EditorPanic == panicked' = TRUE /\ UNCHANGED <<document, editor, hist, layout>>

\* hist after a call that returned ret
Called(call, ret) ==
    [hist EXCEPT
       !.call = call, !.ret = ret,
       !.text_before = Document_text(document),
       !.undoable = editor.undo_manager.undo_stack # <<>>,
       !.prev_call = hist.call, !.prev_ret = hist.ret, !.prev2_call = hist.prev_call,
       !.prev_text = hist.text_before, !.prev_undoable = hist.undoable,
       !.phase = CASE call \in {"insert_text", "delete"} ->
                        IF hist.phase = "edits" THEN "edits" ELSE "other"
                   [] call = "undo" ->
                        IF hist.phase \in {"edits", "undos"} THEN "undos" ELSE "other"
                   [] OTHER -> "other",
       !.edits = IF call \in {"insert_text", "delete"} THEN @ + 1 ELSE @,
       !.moves = IF call = "move_cursor" THEN @ + 1 ELSE @,
       !.replays = IF call \in {"undo", "redo"} THEN @ + 1 ELSE @]

\* the tail shared by Editor::insert_text and Editor::delete: compute the reverse,
\* apply the op, record and commit, move the cursor, drop the selection,
\* invalidate the layout
EditorApply(call, um, op) ==
    IF compute_reverse_panics(op) THEN EditorPanic
    ELSE \E out \in apply_edit(document, op) :
           IF out.panic THEN EditorPanic
           ELSE /\ document' = out.doc
                /\ editor' = [cursor |-> [editor.cursor EXCEPT !.position = out.result.new_cursor],
                              selection |-> None,
                              undo_manager |->
                                  commit(record_edit(um, op, compute_reverse(document, op))),
                              layout_dirty |-> TRUE]
                /\ layout' = invalidate(layout, out.result)
                /\ hist' = Called(call, TRUE)
                /\ UNCHANGED panicked

Editor_insert_text ==
    /\ ~panicked
    /\ hist.edits < MaxEdits
    /\ \E t \in EditorTexts :
         /\ Len(Document_text(document)) + Len(t) <= MaxLen
         /\ document.next_para_id + CountNL(t) <= MaxParaId
         /\ IF position_to_offset_panics(document, editor.cursor.position)
            THEN EditorPanic
            ELSE EditorApply("insert_text",
                             begin_transaction(editor.undo_manager, editor.cursor,
                                               editor.selection),
                             Insert(position_to_offset(document, editor.cursor.position), t))
    /\ UNCHANGED <<overflow_checks, last, used_ids, undo_manager, rope, render_buffer>>

Editor_delete ==
    /\ ~panicked
    /\ hist.edits < MaxEdits
    /\ \E backward \in BOOLEAN :
         LET um == begin_transaction(editor.undo_manager, editor.cursor, editor.selection)
             none == /\ editor' = [editor EXCEPT !.undo_manager = um]
                     /\ hist' = Called("delete", FALSE)
                     /\ UNCHANGED <<document, panicked, layout>>
         IN IF editor.selection # None
            THEN LET se == ordered(editor.selection) IN
                 IF position_to_offset_panics(document, se[1])
                    \/ position_to_offset_panics(document, se[2])
                 THEN EditorPanic
                 ELSE EditorApply("delete", um,
                                  Delete(position_to_offset(document, se[1]),
                                         position_to_offset(document, se[2])))
            ELSE IF position_to_offset_panics(document, editor.cursor.position)
            THEN EditorPanic
            ELSE LET pos == position_to_offset(document, editor.cursor.position) IN
                 IF backward
                 THEN IF pos = 0 THEN none
                      ELSE EditorApply("delete", um,
                                       Delete(prev_grapheme_offset(document, pos), pos))
                 ELSE IF next_grapheme_offset(document, pos) = pos THEN none
                      ELSE EditorApply("delete", um,
                                       Delete(pos, next_grapheme_offset(document, pos)))
    /\ UNCHANGED <<overflow_checks, last, used_ids, undo_manager, rope, render_buffer>>

Editor_undo ==
    /\ ~panicked
    /\ hist.replays < MaxReplays
    /\ IF editor.undo_manager.undo_stack = <<>>
       THEN /\ hist' = Called("undo", FALSE)
            /\ UNCHANGED <<document, editor, panicked, layout>>
       ELSE \E r \in UndoManager_undo(editor.undo_manager, document) :
              IF r.panic THEN EditorPanic
              ELSE /\ document' = r.doc
                   /\ editor' = [cursor |-> r.cursor, selection |-> r.selection,
                                 undo_manager |-> r.um, layout_dirty |-> TRUE]
                   /\ layout' = invalidate_all(layout)
                   /\ hist' = Called("undo", TRUE)
                   /\ UNCHANGED panicked
    /\ UNCHANGED <<overflow_checks, last, used_ids, undo_manager, rope, render_buffer>>

Editor_redo ==
    /\ ~panicked
    /\ hist.replays < MaxReplays
    /\ IF editor.undo_manager.redo_stack = <<>>
       THEN /\ hist' = Called("redo", FALSE)
            /\ UNCHANGED <<document, editor, panicked, layout>>
       ELSE \E r \in UndoManager_redo(editor.undo_manager, document) :
              IF r.panic THEN EditorPanic
              ELSE /\ document' = r.doc
                   /\ editor' = [cursor |-> r.cursor, selection |-> r.selection,
                                 undo_manager |-> r.um, layout_dirty |-> TRUE]
                   /\ layout' = invalidate_all(layout)
                   /\ hist' = Called("redo", TRUE)
                   /\ UNCHANGED panicked
    /\ UNCHANGED <<overflow_checks, last, used_ids, undo_manager, rope, render_buffer>>

\* Editor::move_cursor(horizontal, 0, extend_selection)
Editor_move_cursor ==
    /\ ~panicked
    /\ hist.moves < MaxMoves
    /\ \E horizontal \in {-1, 1}, extend_selection \in BOOLEAN :
         IF position_to_offset_panics(document, editor.cursor.position)
         THEN EditorPanic
         ELSE LET sel0 == IF extend_selection /\ editor.selection = None
                          THEN Selection(editor.cursor.position, editor.cursor.position)
                          ELSE editor.selection
                  offset == position_to_offset(document, editor.cursor.position)
                  new_offset == IF horizontal > 0
                                THEN next_grapheme_offset(document, offset)
                                ELSE prev_grapheme_offset(document, offset)
                  position == offset_to_position(document, new_offset)
              IN /\ editor' = [editor EXCEPT
                                  !.cursor = [@ EXCEPT !.position = position,
                                                       !.preferred_x = None],
                                  !.selection = IF extend_selection
                                                THEN [sel0 EXCEPT !.active = position]
                                                ELSE None]
                 /\ hist' = Called("move_cursor", TRUE)
                 /\ UNCHANGED <<document, panicked>>
    /\ UNCHANGED <<overflow_checks, last, used_ids, undo_manager, rope, layout, render_buffer>>

EditorNext ==
    Editor_insert_text \/ Editor_delete \/ Editor_undo \/ Editor_redo \/ Editor_move_cursor

EditorSpec == EditorInit /\ [][EditorNext]_vars

\* ------------------------------------------------------------------ undo manager alone
\* the forward / reverse pairs handed to record_edit
UndoOps == {<<Insert(0, <<"a">>), Delete(0, 1)>>}

\* what is remembered of a call on the manager: its name and the manager before it
UndoCall(call) ==
    [call |-> call, pending |-> undo_manager.pending,
     undo_before |-> undo_manager.undo_stack, redo_before |-> undo_manager.redo_stack,
     text_before |-> Document_text(document)]

UndoInit ==
    /\ overflow_checks \in BOOLEAN
    /\ document = Document_new
    /\ panicked = FALSE
    /\ last = NoCall
    /\ used_ids = DOMAIN document.blocks
    /\ editor = Editor_new
    /\ hist = NoHist
    /\ undo_manager \in {UndoManager_new(d) : d \in 0..MaxDepth}
    /\ rope = Empty
    /\ layout = LayoutState_new(LayoutConstraints_default)
    /\ render_buffer = RenderBuffer_new

UndoManager_begin_transaction ==
    /\ ~panicked
    /\ undo_manager' = begin_transaction(undo_manager, Cursor(DocPosition(0, 0)), None)
    /\ last' = UndoCall("begin_transaction")
    /\ UNCHANGED <<overflow_checks, document, panicked, used_ids, editor, hist, rope, layout, render_buffer>>

UndoManager_record_edit ==
    /\ ~panicked
    /\ undo_manager.pending # None => Len(undo_manager.pending.forward_ops) < MaxPendingOps
    /\ \E pair \in UndoOps :
          undo_manager' = record_edit(undo_manager, pair[1], pair[2])
    /\ last' = UndoCall("record_edit")
    /\ UNCHANGED <<overflow_checks, document, panicked, used_ids, editor, hist, rope, layout, render_buffer>>

UndoManager_commit ==
    /\ ~panicked
    /\ undo_manager' = commit(undo_manager)
    /\ last' = UndoCall("commit")
    /\ UNCHANGED <<overflow_checks, document, panicked, used_ids, editor, hist, rope, layout, render_buffer>>

\* UndoManager::undo / redo on the manager's document; replay is one of them
UndoReplay(call, replay(_, _), stack) ==
    /\ ~panicked
    /\ document.version < MaxUndoVersion
    /\ IF stack = <<>>
       THEN /\ last' = UndoCall(call)
            /\ UNCHANGED <<undo_manager, document, panicked, used_ids>>
       ELSE \E out \in replay(undo_manager, document) :
              IF out.panic
              THEN panicked' = TRUE /\ UNCHANGED <<undo_manager, document, last, used_ids>>
              ELSE /\ undo_manager' = out.um
                   /\ document' = out.doc
                   /\ last' = UndoCall(call)
                   /\ used_ids' = used_ids \cup DOMAIN out.doc.blocks
                   /\ UNCHANGED panicked
    /\ UNCHANGED <<overflow_checks, editor, hist, rope, layout, render_buffer>>

UndoManager_undo_call == UndoReplay("undo", UndoManager_undo, undo_manager.undo_stack)

UndoManager_redo_call == UndoReplay("redo", UndoManager_redo, undo_manager.redo_stack)

UndoNext ==
    \/ UndoManager_begin_transaction
    \/ UndoManager_record_edit
    \/ UndoManager_commit
    \/ UndoManager_undo_call
    \/ UndoManager_redo_call

UndoSpec == UndoInit /\ [][UndoNext]_vars

\* ------------------------------------------------------------------ rope alone
RopeTexts == {<<>>, <<"a">>, <<NL>>, <<"a", NL>>}

\* Rope::new, or Rope::from_str over RopeTexts
RopeInit ==
    /\ overflow_checks \in BOOLEAN
    /\ document = Document_new
    /\ panicked = FALSE
    /\ last = NoCall
    /\ used_ids = DOMAIN document.blocks
    /\ editor = Editor_new
    /\ hist = NoHist
    /\ undo_manager = UndoManager_new(max_depth)
    /\ rope \in {Rope_from_str(t) : t \in RopeTexts}
    /\ layout = LayoutState_new(LayoutConstraints_default)
    /\ render_buffer = RenderBuffer_new

\* Rope::insert(offset, text); offset may lie past the end
Rope_insert_call ==
    /\ ~panicked
    /\ \E text \in RopeTexts, offset \in 0..(RopeNode_len(rope) + MaxBeyond) :
          /\ (IF offset > RopeNode_len(rope) THEN offset ELSE RopeNode_len(rope))
                 + Len(text) <= MaxRopeLen
          /\ rope' = Rope_insert(rope, offset, text)
          /\ last' = [call |-> "Rope::insert", offset |-> offset, text |-> text,
                      before |-> collect_all(rope)]
    /\ UNCHANGED <<overflow_checks, document, panicked, used_ids, editor, hist, undo_manager, layout, render_buffer>>

\* Rope::delete(start, end); the range may be empty, inverted or past the end
Rope_delete_call ==
    /\ ~panicked
    /\ \E start \in 0..(RopeNode_len(rope) + MaxBeyond),
          end \in 0..(RopeNode_len(rope) + MaxBeyond) :
          LET r == Rope_delete(rope, start, end) IN
          IF r.kind = "Panic"
          THEN panicked' = TRUE /\ UNCHANGED <<rope, last>>
          ELSE /\ rope' = r
               /\ last' = [call |-> "Rope::delete", start |-> start, end |-> end,
                           before |-> collect_all(rope)]
               /\ UNCHANGED panicked
    /\ UNCHANGED <<overflow_checks, document, used_ids, editor, hist, undo_manager, layout, render_buffer>>

RopeNext == Rope_insert_call \/ Rope_delete_call

RopeSpec == RopeInit /\ [][RopeNext]_vars

\* ------------------------------------------------------------------ layout state machine
\* a Document and the LayoutState that follows it, as Editor keeps them: every
\* edit is handed to invalidate, and relayout brings the layout up to date
LayoutInit ==
    /\ overflow_checks \in BOOLEAN
    /\ document \in {Document_new} \cup {Document_from_text(t) : t \in InitTexts}
    /\ panicked = FALSE
    /\ last = NoCall
    /\ used_ids = DOMAIN document.blocks
    /\ editor = Editor_new
    /\ hist = NoHist
    /\ undo_manager = UndoManager_new(max_depth)
    /\ rope = Empty
    /\ layout \in {LayoutState_new(LayoutConstraints(w, h)) :
                      w \in 1..MaxContentWidth, h \in 1..MaxContentHeight}
    /\ render_buffer = RenderBuffer_new

\* document.apply_edit(op) followed by layout.invalidate(&result)
LayoutEdit(op) ==
    /\ ~panicked
    /\ WithinBounds(document, op)
    /\ \E out \in apply_edit(document, op) :
          IF out.panic
          THEN panicked' = TRUE /\ UNCHANGED <<document, last, used_ids, layout>>
          ELSE /\ document' = out.doc
               /\ layout' = invalidate(layout, out.result)
               /\ last' = [call |-> "edit", op |-> op, result |-> out.result,
                           reverse |-> None,
                           text_before |-> Document_text(document),
                           version_before |-> document.version]
               /\ used_ids' = used_ids \cup DOMAIN out.doc.blocks
               /\ UNCHANGED panicked
    /\ UNCHANGED <<overflow_checks, editor, hist, undo_manager, rope, render_buffer>>

LayoutInsert ==
    \E p \in 0..Len(Document_text(document)), t \in InsertTexts :
        LayoutEdit(Insert(p, t))

LayoutDelete ==
    \E a \in 0..Len(Document_text(document)), b \in 0..Len(Document_text(document)) :
        a < b /\ LayoutEdit(Delete(a, b))

\* layout.relayout(&document)
Relayout ==
    /\ ~panicked
    /\ LET r == relayout(layout, document) IN
       IF r.panic
       THEN panicked' = TRUE /\ UNCHANGED <<layout, last>>
       ELSE /\ layout' = r.layout
            /\ last' = [call |-> "relayout", op |-> None, result |-> None,
                        reverse |-> None,
                        text_before |-> Document_text(document),
                        version_before |-> document.version]
            /\ UNCHANGED panicked
    /\ UNCHANGED <<overflow_checks, document, used_ids, editor, hist, undo_manager, rope, render_buffer>>

LayoutNext == LayoutInsert \/ LayoutDelete \/ Relayout

LayoutSpec == LayoutInit /\ [][LayoutNext]_vars

\* the same machine from a document of three paragraphs, "a", "b" and an empty one
AbParagraphs == <<"a", NL, "b", NL>>

LayoutInitAb ==
    /\ overflow_checks \in BOOLEAN
    /\ document = Document_from_text(AbParagraphs)
    /\ panicked = FALSE
    /\ last = NoCall
    /\ used_ids = DOMAIN document.blocks
    /\ editor = Editor_new
    /\ hist = NoHist
    /\ undo_manager = UndoManager_new(max_depth)
    /\ rope = Empty
    /\ layout \in {LayoutState_new(LayoutConstraints(w, h)) :
                      w \in 1..MaxContentWidth, h \in 1..MaxContentHeight}
    /\ render_buffer = RenderBuffer_new

LayoutSpecAb == LayoutInitAb /\ [][LayoutNext]_vars

\* ------------------------------------------------------------------ render buffer state machine
\* WasmEditor::build_render_data drives one RenderBuffer per frame: a pre-scan of
\* the display list sizes the buffers, then the header, the pages with their
\* lines, the cursor and the selections are written and the buffer is finalized.
\* The model offers the cursor and selection writes at any point after the header.
TextRun(x, y, text, block_kind, selection_range, styles) ==
    [position |-> [x |-> x, y |-> y], text |-> text, block_kind |-> block_kind,
     selection_range |-> selection_range, styles |-> styles]

Paragraph == [type |-> "Paragraph"]
ListItem(marker) == [type |-> "ListItem", marker |-> marker]

WideRun == TextRun(72, 88, <<"U+00E9", "U+1F600">>, Paragraph, Some(<<0, 1>>), <<<<0, 2, 1>>>>)
BulletRun == TextRun(96, 104, <<"a", "b">>, ListItem([type |-> "Bullet"]), None, <<<<0, 1, 0>>, <<1, 1, 2>>>>)
NumberedRun == TextRun(96, 120, <<>>, ListItem([type |-> "Numbered"]), Some(<<0, 0>>), <<>>)

\* the TextRuns of one display-list page: a page with none, or a page with a
\* paragraph line of multi-byte text, a bulleted line and an empty numbered line
PageItems == {<<>>, <<WideRun, BulletRun, NumberedRun>>}

\* one page of so many lines that the u32 size passes the capacity of
\* RenderBuffer::new
LongDisplayList ==
    [pages |-> <<[i \in 1..LongPageLines |-> BulletRun]>>, caret |-> FALSE, selection_count |-> 0,
     version |-> [hi |-> 0, lo |-> 1]]

\* the display lists offered: their pages, whether a Caret item is present, the
\* number of SelectionRect items, and the document version they carry
DisplayLists ==
    {[pages |-> ps, caret |-> c, selection_count |-> n,
      version |-> [hi |-> Len(ps) % 2, lo |-> 3 + n]] :
        ps \in UNION {[1..k -> PageItems] : k \in 0..MaxPages},
        c \in BOOLEAN,
        n \in 0..MaxSelections}
    \cup {LongDisplayList}

total_lines(dl) == SeqSum([i \in 1..Len(dl.pages) |-> Len(dl.pages[i])])

run_text_bytes(run) ==
    Len(as_bytes(run.text))
    + (IF run.block_kind.type = "ListItem"
       THEN Len(as_bytes(ListMarker_display(run.block_kind.marker))) ELSE 0)

total_text_bytes(dl) ==
    SeqSum([i \in 1..Len(dl.pages) |->
               SeqSum([j \in 1..Len(dl.pages[i]) |-> run_text_bytes(dl.pages[i][j])])])

\* a pre-scan that leaves the cursor record out of the u32 size
u32_needed_without_cursor(dl) ==
    HEADER_SIZE + Len(dl.pages) * 2 + total_lines(dl) * U32_PER_LINE
    + dl.selection_count * U32_PER_SELECTION

\* the sizes build_render_data hands to prepare
u32_needed(dl) ==
    HEADER_SIZE + Len(dl.pages) * 2 + total_lines(dl) * U32_PER_LINE
    + (IF dl.caret THEN 1 ELSE 0) * U32_PER_CURSOR + dl.selection_count * U32_PER_SELECTION
f32_needed(dl) ==
    Len(dl.pages) * 3 + total_lines(dl) * 2
    + (IF dl.caret THEN 1 ELSE 0) * F32_PER_CURSOR + dl.selection_count * F32_PER_SELECTION
text_needed(dl) == total_text_bytes(dl)

NoFrame == [call |-> "none", phase |-> "idle"]

RenderInit ==
    /\ overflow_checks \in BOOLEAN
    /\ document = Document_new
    /\ panicked = FALSE
    /\ last = NoFrame
    /\ used_ids = DOMAIN document.blocks
    /\ editor = Editor_new
    /\ hist = NoHist
    /\ undo_manager = UndoManager_new(max_depth)
    /\ rope = Empty
    /\ layout = LayoutState_new(LayoutConstraints_default)
    /\ render_buffer = RenderBuffer_new

RenderUnchanged ==
    UNCHANGED <<overflow_checks, document, used_ids, editor, hist, undo_manager, rope, layout>>

\* the frames that leave the most behind in the buffer
FullFrame ==
    /\ last.phase = "finalized"
    /\ \/ /\ Len(last.display_list.pages) = MaxPages
          /\ last.cursor # None
          /\ Len(last.selections) = MaxSelections
       \/ last.display_list = LongDisplayList

\* the pre-scan and render_buffer.prepare(u32_needed, f32_needed, text_needed);
\* the buffer is reused for the next frame, which the model offers after a FullFrame
Prepare ==
    /\ ~panicked
    /\ last.phase = "idle" \/ FullFrame
    /\ \E dl \in DisplayLists :
          LET rb == prepare(render_buffer, u32_needed(dl), f32_needed(dl), text_needed(dl)) IN
          /\ render_buffer' = rb
          /\ last' = [call |-> "prepare", phase |-> "prepared", display_list |-> dl,
                      prepared |-> rb,
                      page |-> 0, open |-> None, line |-> 0,
                      cursor_writes |-> 0, cursor |-> None, selections |-> <<>>]
    /\ UNCHANGED panicked
    /\ RenderUnchanged

\* render_buffer.write_header(display_list.version, display_list.pages.len() as u32)
WriteHeader ==
    /\ ~panicked
    /\ last.phase = "prepared"
    /\ render_buffer' = write_header(render_buffer, last.display_list.version,
                                      AsU32(Len(last.display_list.pages)))
    /\ last' = [last EXCEPT !.call = "write_header", !.phase = "writing"]
    /\ UNCHANGED panicked
    /\ RenderUnchanged

\* render_buffer.begin_page(page.page_index, page_y, page_width, page_height)
BeginPage ==
    /\ ~panicked
    /\ last.phase = "writing"
    /\ last.open = None
    /\ last.page < Len(last.display_list.pages)
    /\ LET r == begin_page(render_buffer, last.page, last.page * page_height, page_width, page_height) IN
          /\ render_buffer' = r.rb
          /\ last' = [last EXCEPT !.call = "begin_page", !.open = Some(r.line_count_idx), !.line = 0]
    /\ UNCHANGED panicked
    /\ RenderUnchanged

\* render_buffer.write_line(...) for the next TextRun of the open page
WriteLine ==
    /\ ~panicked
    /\ last.phase = "writing"
    /\ last.open # None
    /\ last.line < Len(last.display_list.pages[last.page + 1])
    /\ LET run == last.display_list.pages[last.page + 1][last.line + 1]
           opcode == block_kind_to_opcode(run.block_kind)
           list_marker == IF run.block_kind.type = "ListItem"
                          THEN Some(ListMarker_display(run.block_kind.marker)) ELSE None
       IN /\ render_buffer' = write_line(render_buffer, run.position.x, run.position.y, run.text,
                                         opcode[1], opcode[2], list_marker,
                                         run.selection_range, run.styles)
          /\ last' = [last EXCEPT !.call = "write_line", !.line = @ + 1]
    /\ UNCHANGED panicked
    /\ RenderUnchanged

\* render_buffer.set_line_count(line_count_idx, line_count) at the end of a page
EndPage ==
    /\ ~panicked
    /\ last.phase = "writing"
    /\ last.open # None
    /\ last.line = Len(last.display_list.pages[last.page + 1])
    /\ render_buffer' = set_line_count(render_buffer, last.open.some, AsU32(last.line))
    /\ last' = [last EXCEPT !.call = "set_line_count", !.open = None, !.page = @ + 1, !.line = 0]
    /\ UNCHANGED panicked
    /\ RenderUnchanged

\* render_buffer.write_cursor(x, y, height, page_index, utf16_offset) for a Caret
\* met on the page being written
WriteCursor ==
    /\ ~panicked
    /\ last.phase = "writing"
    /\ last.display_list.caret
    /\ last.cursor_writes < MaxCursorWrites
    /\ LET page_index == last.page
           utf16_offset == 3 * last.cursor_writes
           x == 72 + 8 * utf16_offset
           y == 88 + 16 * last.cursor_writes
       IN /\ render_buffer' = write_cursor(render_buffer, x, y, 16, page_index, utf16_offset)
          /\ last' = [last EXCEPT !.call = "write_cursor", !.cursor_writes = @ + 1,
                                  !.cursor = Some(PendingCursor(x, y, 16, page_index, utf16_offset))]
    /\ UNCHANGED panicked
    /\ RenderUnchanged

\* render_buffer.write_selection(x, y, width, height, page_index) for a
\* SelectionRect met on the page being written
WriteSelection ==
    /\ ~panicked
    /\ last.phase = "writing"
    /\ Len(last.selections) < last.display_list.selection_count
    /\ LET page_index == last.page
           x == 72
           y == 88 + 16 * Len(last.selections)
           width == 8 * (page_index + 1)
       IN /\ render_buffer' = write_selection(render_buffer, x, y, width, 16, page_index)
          /\ last' = [last EXCEPT !.call = "write_selection",
                                  !.selections = Append(@, PendingSelection(x, y, width, 16, page_index))]
    /\ UNCHANGED panicked
    /\ RenderUnchanged

\* render_buffer.finalize() once every page is written; a build with debug
\* assertions (the profile that also checks overflow) runs validate_text_offsets
Finalize ==
    /\ ~panicked
    /\ last.phase = "writing"
    /\ last.open = None
    /\ last.page = Len(last.display_list.pages)
    /\ LET rb == finalize(render_buffer) IN
          /\ render_buffer' = rb
          /\ last' = [last EXCEPT !.call = "finalize", !.phase = "finalized"]
          /\ panicked' = (overflow_checks /\ ~validate_text_offsets(rb))
    /\ RenderUnchanged

RenderNext ==
    \/ Prepare
    \/ WriteHeader
    \/ BeginPage
    \/ WriteLine
    \/ EndPage
    \/ WriteCursor
    \/ WriteSelection
    \/ Finalize

RenderSpec == RenderInit /\ [][RenderNext]_vars

\* ------------------------------------------------------------------ line breaker alone
\* LineBreaker::layout_paragraph applied once to a text, a font and a width
HelloWorld == <<"H", "e", "l", "l", "o", " ", "W", "o", "r", "l", "d">>

\* the font of test_line_wrap: every character 8 wide, lines 10 high
TestFontMetrics == [line_height |-> 10, default_width |-> 8]

RECURSIVE SeqsUpTo(_, _)
SeqsUpTo(S, n) ==
    IF n = 0 THEN {<<>>}
    ELSE LET shorter == SeqsUpTo(S, n - 1)
         IN shorter \cup {Append(t, c) : t \in shorter, c \in S}

BreakTexts == SeqsUpTo({"a", " ", NL}, MaxBreakLen) \cup {HelloWorld}

\* a font with the content widths tried with it: room for one, two or five characters
BreakFonts ==
    {[metrics |-> m, max_width |-> m.default_width * n] :
        m \in {FontMetrics_default, TestFontMetrics}, n \in {1, 2, 5}}

BreakInit ==
    /\ overflow_checks \in BOOLEAN
    /\ document = Document_new
    /\ panicked = FALSE
    /\ \E t \in BreakTexts, f \in BreakFonts :
          last = [call |-> "none", text |-> t, metrics |-> f.metrics, max_width |-> f.max_width,
                  result |-> None]
    /\ used_ids = DOMAIN document.blocks
    /\ editor = Editor_new
    /\ hist = NoHist
    /\ undo_manager = UndoManager_new(max_depth)
    /\ rope = Empty
    /\ layout = LayoutState_new(LayoutConstraints_default)
    /\ render_buffer = RenderBuffer_new

LayoutParagraph ==
    /\ last.call = "none"
    /\ last' = [last EXCEPT !.call = "layout_paragraph",
                            !.result = Some(layout_paragraph_in(0, last.text, last.max_width,
                                                                last.metrics))]
    /\ UNCHANGED <<overflow_checks, document, panicked, used_ids, editor, hist, undo_manager,
                   rope, layout, render_buffer>>

BreakSpec == BreakInit /\ [][LayoutParagraph]_vars

\* ------------------------------------------------------------------ block metadata alone
\* a BlockMeta whose spans are non-empty, in range, sorted and disjoint, and one
\* on_delete(start, end) call with start <= end <= byte_len
SpanSeqs(byte_len, n) ==
    {ss \in SeqsUpTo({StyleSpan(a, b, f) : a \in 0..byte_len, b \in 0..byte_len, f \in {1, 2}}, n) :
        /\ \A i \in 1..Len(ss) : ss[i].start < ss[i].end
        /\ \A i \in 1..(Len(ss) - 1) : ss[i].end <= ss[i + 1].start}

BlockInit ==
    /\ overflow_checks \in BOOLEAN
    /\ document = Document_new
    /\ panicked = FALSE
    /\ \E n \in 0..MaxBlockLen :
          \E ss \in SpanSeqs(n, MaxSpans) :
             last = [call |-> "none", meta |-> BlockMeta(0, n, ss), before |-> <<>>,
                     start |-> 0, end |-> 0]
    /\ used_ids = DOMAIN document.blocks
    /\ editor = Editor_new
    /\ hist = NoHist
    /\ undo_manager = UndoManager_new(max_depth)
    /\ rope = Empty
    /\ layout = LayoutState_new(LayoutConstraints_default)
    /\ render_buffer = RenderBuffer_new

\* meta.on_delete(start, end), followed by the caller's byte_len -= end - start
BlockMeta_on_delete ==
    /\ ~panicked
    /\ \E start \in 0..last.meta.byte_len :
          \E end \in start..last.meta.byte_len :
             /\ end > start
             /\ IF overflow_checks /\ on_delete_overflows(last.meta.styles, start, end)
                THEN panicked' = TRUE /\ UNCHANGED last
                ELSE /\ last' = [call |-> "on_delete",
                                 meta |-> BlockMeta(0, last.meta.byte_len - (end - start),
                                                    on_delete(last.meta.styles, start, end)),
                                 before |-> last.meta.styles, start |-> start, end |-> end]
                     /\ UNCHANGED panicked
    /\ UNCHANGED <<overflow_checks, document, used_ids, editor, hist, undo_manager,
                   rope, layout, render_buffer>>

BlockSpec == BlockInit /\ [][BlockMeta_on_delete]_vars

\* ------------------------------------------------------------------ editor with layout
\* Editor::with_text over CursorTexts, then insert_text, delete, update_layout
\* and move_cursor in both directions
CursorTexts == {<<"a", "b", NL, "a", "b", NL, "a", "b">>, <<"a", "b", "a", "b">>, <<"a", NL, "b">>}

CursorInit ==
    /\ overflow_checks \in BOOLEAN
    /\ document \in {Document_from_text(t) : t \in CursorTexts}
    /\ panicked = FALSE
    /\ last = NoCall
    /\ used_ids = DOMAIN document.blocks
    /\ editor = Editor_new
    /\ hist = [NoHist EXCEPT !.initial_text = Document_text(document)]
    /\ undo_manager = UndoManager_new(max_depth)
    /\ rope = Empty
    /\ layout \in {LayoutState_new(LayoutConstraints_with_margin(2, h, m)) :
                      h \in 1..MaxContentHeight, m \in 0..MaxMargin}
    /\ render_buffer = RenderBuffer_new

\* Editor::update_layout on a dirty layout
Editor_update_layout ==
    /\ ~panicked
    /\ editor.layout_dirty
    /\ LET r == relayout(layout, document) IN
       IF r.panic
       THEN panicked' = TRUE /\ UNCHANGED <<layout, editor, hist>>
       ELSE /\ layout' = r.layout
            /\ editor' = [editor EXCEPT !.layout_dirty = FALSE]
            /\ hist' = Called("update_layout", TRUE)
            /\ UNCHANGED panicked
    /\ UNCHANGED <<overflow_checks, document, last, used_ids, undo_manager, rope, render_buffer>>

\* Editor::move_cursor(horizontal, vertical, extend_selection); last keeps the
\* call and the cursor it started from
MoveCursor ==
    /\ ~panicked
    /\ hist.moves < MaxCursorMoves
    /\ \E horizontal \in {-1, 0, 1}, vertical \in {-1, 0, 1}, extend_selection \in BOOLEAN :
         /\ (horizontal = 0) # (vertical = 0)
         /\ IF horizontal # 0 /\ position_to_offset_panics(document, editor.cursor.position)
            THEN EditorPanic /\ UNCHANGED last
            ELSE /\ editor' = move_cursor(editor, document, layout,
                                          horizontal, vertical, extend_selection)
                 /\ hist' = Called("move_cursor", TRUE)
                 /\ last' = [call |-> "move_cursor", horizontal |-> horizontal,
                             vertical |-> vertical, cursor_before |-> editor.cursor,
                             prev |-> IF last.call = "move_cursor" /\ hist.call = "move_cursor"
                                      THEN Some([horizontal |-> last.horizontal,
                                                 vertical |-> last.vertical,
                                                 cursor_before |-> last.cursor_before])
                                      ELSE None]
                 /\ UNCHANGED <<document, panicked, layout>>
    /\ UNCHANGED <<overflow_checks, used_ids, undo_manager, rope, render_buffer>>

CursorNext ==
    \/ hist.edits < MaxCursorEdits /\ Editor_insert_text
    \/ hist.edits < MaxCursorEdits /\ Editor_delete
    \/ Editor_update_layout
    \/ MoveCursor

CursorSpec == CursorInit /\ [][CursorNext]_vars

\* ------------------------------------------------------------------ select_all
\* wasm/mod.rs, WasmEditor::select_all, taken one loop iteration at a time.
\* last holds the position inside the call: pc is "idle" before it, "while" in
\* the loop that walks the cursor back, "for" in the loop that extends the
\* selection (remaining iterations of 0..text_len), "done" after it returned.
SelectPc(pc, remaining) == [call |-> "select_all", pc |-> pc, remaining |-> remaining]

\* WasmEditor::new, or an Editor over InitTexts
SelectInit ==
    /\ overflow_checks \in BOOLEAN
    /\ document \in {Document_new} \cup {Document_from_text(t) : t \in InitTexts}
    /\ panicked = FALSE
    /\ last = SelectPc("idle", 0)
    /\ used_ids = DOMAIN document.blocks
    /\ editor = Editor_new
    /\ hist = [NoHist EXCEPT !.initial_text = Document_text(document)]
    /\ undo_manager = UndoManager_new(max_depth)
    /\ rope = Empty
    /\ layout = LayoutState_new(LayoutConstraints_default)
    /\ render_buffer = RenderBuffer_new

\* the condition of the while loop
select_all_condition ==
    editor.cursor.position.offset # 0 \/ editor.cursor.position.para_id > 0

\* entry of select_all
select_all ==
    /\ ~panicked
    /\ last.pc = "idle"
    /\ last' = SelectPc("while", 0)
    /\ UNCHANGED <<overflow_checks, document, panicked, used_ids, editor, hist,
                   undo_manager, rope, layout, render_buffer>>

\* one test of the while condition, with the body move_cursor(-1, 0, false) when
\* it holds and text_len = self.editor.text().len() when it does not
select_all_while ==
    /\ ~panicked
    /\ last.pc = "while"
    /\ IF select_all_condition
       THEN IF position_to_offset_panics(document, editor.cursor.position)
            THEN panicked' = TRUE /\ UNCHANGED <<editor, last>>
            ELSE /\ editor' = move_cursor(editor, document, layout, -1, 0, FALSE)
                 /\ UNCHANGED <<panicked, last>>
       ELSE /\ last' = SelectPc("for", Len(Document_text(document)))
            /\ UNCHANGED <<panicked, editor>>
    /\ UNCHANGED <<overflow_checks, document, used_ids, hist, undo_manager, rope,
                   layout, render_buffer>>

\* one iteration of for _ in 0..text_len with the body move_cursor(1, 0, true),
\* or the return when the range is exhausted
select_all_for ==
    /\ ~panicked
    /\ last.pc = "for"
    /\ IF last.remaining = 0
       THEN last' = SelectPc("done", 0) /\ UNCHANGED <<panicked, editor>>
       ELSE IF position_to_offset_panics(document, editor.cursor.position)
       THEN panicked' = TRUE /\ UNCHANGED <<editor, last>>
       ELSE /\ editor' = move_cursor(editor, document, layout, 1, 0, TRUE)
            /\ last' = SelectPc("for", last.remaining - 1)
            /\ UNCHANGED panicked
    /\ UNCHANGED <<overflow_checks, document, used_ids, hist, undo_manager, rope,
                   layout, render_buffer>>

\* the editor is driven only outside a select_all call
SelectNext ==
    \/ last.pc \in {"idle", "done"} /\ hist.edits < MaxSelectEdits /\ Editor_insert_text
    \/ last.pc \in {"idle", "done"} /\ hist.edits < MaxSelectEdits /\ Editor_delete
    \/ last.pc \in {"idle", "done"} /\ Editor_move_cursor
    \/ select_all
    \/ select_all_while
    \/ select_all_for

SelectSpec == SelectInit /\ [][SelectNext]_vars

\* a call that has been entered keeps running: each loop takes its next step
SelectFairSpec ==
    SelectSpec /\ WF_vars(select_all_while) /\ WF_vars(select_all_for)

\* ------------------------------------------------------------------ display list
\* render/display.rs.  Of a TextRun the id (paragraph, line index), the y and the
\* text are kept, of a Caret the y and the UTF-16 offset; y is measured from the
\* top margin.  The viewport is given by the page indexes computed from it,
\* first_visible_page and last_visible_page.
DisplayItem_TextRun(para_id, line_idx, y, text) ==
    [type |-> "TextRun", id |-> <<para_id, line_idx>>, y |-> y, text |-> text]

DisplayItem_Caret(y, utf16_offset_in_line) ==
    [type |-> "Caret", y |-> y, utf16_offset_in_line |-> utf16_offset_in_line]

\* the sum of the heights of lines[from .. to - 1], zero-based
heights_between(lines, from, to) ==
    SeqSum([i \in 1..(to - from) |-> lines[from + i].height])

\* the second loop of cursor_position: over the paragraph order from place k,
\* skipping ids below the page's start_para, adding line heights until the
\* cursor's line is met, giving up after the page's end_para
RECURSIVE cursor_position_loop(_, _, _, _, _, _, _)
cursor_position_loop(doc, ls, cursor, line_idx, page, k, y) ==
    IF k > Len(paragraph_order(doc)) THEN None
    ELSE LET para_id == paragraph_order(doc)[k]
             first_line == IF para_id = page.start_para THEN page.start_line ELSE 0
         IN
         IF para_id < page.start_para
         THEN cursor_position_loop(doc, ls, cursor, line_idx, page, k + 1, y)
         ELSE IF para_id \notin DOMAIN ls.paragraph_layouts
         THEN IF para_id = page.end_para THEN None
              ELSE cursor_position_loop(doc, ls, cursor, line_idx, page, k + 1, y)
         ELSE IF /\ para_id = cursor.position.para_id
                 /\ first_line <= line_idx
                 /\ line_idx < Len(ls.paragraph_layouts[para_id].lines)
         THEN Some(y + heights_between(ls.paragraph_layouts[para_id].lines,
                                       first_line, line_idx))
         ELSE IF para_id = page.end_para THEN None
         ELSE cursor_position_loop(
                  doc, ls, cursor, line_idx, page, k + 1,
                  y + heights_between(ls.paragraph_layouts[para_id].lines, first_line,
                                      Len(ls.paragraph_layouts[para_id].lines)))

\* the line of the cursor: paragraph_layout(para_id)?.line_at_offset(offset)?
cursor_line(ls, cursor) ==
    IF cursor.position.para_id \in DOMAIN ls.paragraph_layouts
    THEN line_at_offset(ls.paragraph_layouts[cursor.position.para_id], cursor.position.offset)
    ELSE None

\* the checks of cursor_position that precede paragraph_text, for the line
\* found: the cursor's paragraph id lies between the page's start and end ids,
\* it has a layout with a line for the offset, and the line is not before /
\* after the page's lines
cursor_on_page(cursor, page, found) ==
    /\ ~(cursor.position.para_id < page.start_para
         \/ cursor.position.para_id > page.end_para)
    /\ found # None
    /\ ~(cursor.position.para_id = page.start_para /\ found.some[1] < page.start_line)
    /\ ~(cursor.position.para_id = page.end_para /\ found.some[1] > page.end_line)

\* para_text.get(line_start_byte..cursor_byte).unwrap_or("")
text_before_cursor(para_text, line_start_byte, cursor_byte) ==
    IF ULe(line_start_byte, cursor_byte) /\ ULe(cursor_byte, Len(para_text))
    THEN SubSeq(para_text, line_start_byte + 1, cursor_byte)
    ELSE <<>>

\* the pair cursor_position returns for the y its loop found
caret_at(at, utf16_offset) == IF at = None THEN None ELSE Some(<<at.some, utf16_offset>>)

\* DisplayList::cursor_position, given the line found for the cursor: panic is
\* whether paragraph_text did not return, caret is Some of (y, utf16_offset) or None
cursor_position(doc, ls, cursor, page, found) ==
    IF ~cursor_on_page(cursor, page, found) THEN [panic |-> FALSE, caret |-> None]
    ELSE IF paragraph_text_panics(doc, cursor.position.para_id)
    THEN [panic |-> TRUE, caret |-> None]
    ELSE [panic |-> FALSE,
          caret |-> caret_at(
              cursor_position_loop(doc, ls, cursor, found.some[1], page, 1, 0),
              utf16_len(text_before_cursor(paragraph_text(doc, cursor.position.para_id),
                                           found.some[2].byte_range[1],
                                           cursor.position.offset)))]

\* the text of a TextRun
line_text(para_text, line) ==
    IF ULe(line.byte_range[2], Len(para_text))
    THEN SubSeq(para_text, line.byte_range[1] + 1, line.byte_range[2])
    ELSE <<>>

\* the TextRuns of the lines start_line .. stop - 1 of one paragraph, from y on
paragraph_runs(para_id, lines, para_text, start_line, stop, y) ==
    [i \in 1..(stop - start_line) |->
        DisplayItem_TextRun(para_id, start_line + i - 1,
                            y + heights_between(lines, start_line, start_line + i - 1),
                            line_text(para_text, lines[start_line + i]))]

\* start_line..end_line.min(para_layout.lines.len()) of a paragraph on a page
page_start_line(page, para_id) == IF para_id = page.start_para THEN page.start_line ELSE 0
page_stop_line(page, para_id, lines) ==
    IF para_id = page.end_para /\ page.end_line + 1 < Len(lines)
    THEN page.end_line + 1
    ELSE Len(lines)

\* runs, followed by the items of rest
runs_then(runs, rest) == [panic |-> rest.panic, items |-> runs \o rest.items]

\* the paragraph loop of build for one page, from place k of the paragraph order:
\* the items, with whether a paragraph_text call panicked
RECURSIVE page_runs(_, _, _, _, _, _)
page_runs(doc, ls, page, k, in_page, y) ==
    IF k > Len(paragraph_order(doc)) THEN [panic |-> FALSE, items |-> <<>>]
    ELSE LET para_id == paragraph_order(doc)[k] IN
         IF ~(in_page \/ para_id = page.start_para)
         THEN page_runs(doc, ls, page, k + 1, FALSE, y)
         ELSE IF para_id \notin DOMAIN ls.paragraph_layouts
         THEN IF para_id = page.end_para THEN [panic |-> FALSE, items |-> <<>>]
              ELSE page_runs(doc, ls, page, k + 1, TRUE, y)
         ELSE IF paragraph_text_panics(doc, para_id) THEN [panic |-> TRUE, items |-> <<>>]
         ELSE LET lines == ls.paragraph_layouts[para_id].lines
                  start_line == page_start_line(page, para_id)
                  stop == page_stop_line(page, para_id, lines)
              IN runs_then(
                     paragraph_runs(para_id, lines, paragraph_text(doc, para_id),
                                    start_line, stop, y),
                     IF para_id = page.end_para THEN [panic |-> FALSE, items |-> <<>>]
                     ELSE page_runs(doc, ls, page, k + 1, TRUE,
                                    y + heights_between(lines, start_line, stop)))

\* the items of a page: the TextRuns, then the Caret when cursor_position found one
page_items(runs, at) ==
    [panic |-> runs.panic \/ at.panic,
     items |-> IF at.caret = None THEN runs.items
               ELSE Append(runs.items, DisplayItem_Caret(at.caret.some[1], at.caret.some[2]))]

\* one DisplayPage
DisplayPage(doc, ls, cursor, page_idx, found) ==
    [page_index |-> page_idx,
     content |-> page_items(page_runs(doc, ls, ls.pages[page_idx + 1], 1, FALSE, 0),
                            cursor_position(doc, ls, cursor, ls.pages[page_idx + 1], found))]

\* the display list of the pages built
DisplayList(version, built) ==
    [panic |-> \E j \in 1..Len(built) : built[j].content.panic,
     version |-> version,
     pages |-> [j \in 1..Len(built) |-> [page_index |-> built[j].page_index,
                                         items |-> built[j].content.items]]]

\* the indexes of the pages that are not skipped
visible_pages(ls, first_visible_page, last_visible_page) ==
    SetToSeq({i \in 0..(Len(ls.pages) - 1) :
                 ~(i < first_visible_page \/ i > last_visible_page)})

pages_built(doc, ls, cursor, visible, found) ==
    [j \in 1..Len(visible) |-> DisplayPage(doc, ls, cursor, visible[j], found)]

\* DisplayList::build over the pages first_visible_page ..= last_visible_page
DisplayList_build(doc, ls, first_visible_page, last_visible_page, cursor) ==
    DisplayList(doc.version,
                pages_built(doc, ls, cursor,
                            visible_pages(ls, first_visible_page, last_visible_page),
                            cursor_line(ls, cursor)))

\* ------------------------------------------------------------------ editor with display list
\* Editor::with_text("a\nb") laid out two characters wide on pages of one to
\* MaxDisplayHeight lines; edits, update_layout, cursor moves and
\* build_display_list for a viewport that covers every page or begins at page 1
DisplayInit ==
    /\ overflow_checks \in BOOLEAN
    /\ document = Document_from_text(<<"a", NL, "b">>)
    /\ panicked = FALSE
    /\ last = NoCall
    /\ used_ids = DOMAIN document.blocks
    /\ editor = Editor_new
    /\ hist = [NoHist EXCEPT !.initial_text = Document_text(document)]
    /\ undo_manager = UndoManager_new(max_depth)
    /\ rope = Empty
    /\ layout \in {LayoutState_new(LayoutConstraints_with_margin(2, h, 0)) :
                      h \in 1..MaxDisplayHeight}
    /\ render_buffer = RenderBuffer_new

\* Editor::build_display_list(viewport); last keeps the call and its result
Editor_build_display_list ==
    /\ ~panicked
    /\ \E first_visible_page \in {0, 1} :
         \E dl \in {DisplayList_build(document, layout, first_visible_page,
                                      Len(layout.pages), editor.cursor)} :
            IF dl.panic
            THEN panicked' = TRUE /\ UNCHANGED <<last, hist>>
            ELSE /\ last' = [call |-> "build_display_list",
                             first_visible_page |-> first_visible_page,
                             last_visible_page |-> Len(layout.pages),
                             display_list |-> [version |-> dl.version, pages |-> dl.pages]]
                 /\ hist' = Called("build_display_list", TRUE)
                 /\ UNCHANGED panicked
    /\ UNCHANGED <<overflow_checks, document, used_ids, editor, undo_manager, rope,
                   layout, render_buffer>>

DisplayNext ==
    \/ hist.edits < MaxDisplayEdits /\ Editor_insert_text
    \/ hist.edits < MaxDisplayEdits /\ Editor_delete
    \/ Editor_update_layout
    \/ hist.moves < MaxDisplayMoves /\ MoveCursor
    \/ Editor_build_display_list

DisplaySpec == DisplayInit /\ [][DisplayNext]_vars

\* ------------------------------------------------------------------ properties
RECURSIVE JoinNL(_)
JoinNL(pieces) ==
    IF pieces = <<>> THEN <<>>
    ELSE IF Len(pieces) = 1 THEN pieces[1]
    ELSE pieces[1] \o <<NL>> \o JoinNL(Tail(pieces))

ParagraphTexts(doc) ==
    [k \in 1..Len(paragraph_order(doc)) |-> paragraph_text(doc, paragraph_order(doc)[k])]

NoParagraphTextPanics(doc) ==
    \A k \in 1..Len(paragraph_order(doc)) :
        ~paragraph_text_panics(doc, paragraph_order(doc)[k])

EditCalls == {"insert", "delete", "transaction", "reverse"}
Created(l) == IF l.call \in EditCalls THEN Range(l.result.created_paragraphs) ELSE {}

\* C1: after any sequence of apply_edit calls, text() is the paragraph texts of
\* paragraph_order(), in order, joined by "\n".
C1_TextRoundTrip ==
    ~panicked =>
        /\ NoParagraphTextPanics(document)
        /\ Document_text(document) = JoinNL(ParagraphTexts(document))

\* C2: after any sequence of apply_edit calls, paragraph_count() is the number of
\* newline bytes of text() plus one.
C2_ParagraphCount ==
    ~panicked => paragraph_count(document) = CountNL(Document_text(document)) + 1

\* C3: for every paragraph P, block_meta(P).byte_len is the length of
\* paragraph_text(P), and paragraph_text(P) is the run of bytes of text() between
\* P's neighbouring newline separators.
C3_ParagraphBytes ==
    ~panicked =>
        /\ NoParagraphTextPanics(document)
        /\ \A k \in 1..Len(paragraph_order(document)) :
              LET id == paragraph_order(document)[k] IN
              /\ id \in DOMAIN document.blocks
              /\ document.blocks[id].byte_len = Len(paragraph_text(document, id))
        /\ ParagraphTexts(document) = split_nl(Document_text(document))

\* C4: for every paragraph id, the paragraph index's (start, len) equals the block
\* metadata's (start_offset, byte_len).
C4_IndexMirrorsBlocks ==
    ~panicked =>
        /\ DOMAIN document.paragraph_index.para_bounds = DOMAIN document.blocks
        /\ \A id \in DOMAIN document.blocks :
              document.paragraph_index.para_bounds[id]
                  = <<document.blocks[id].start_offset, document.blocks[id].byte_len>>

\* C5: in paragraph_order() the paragraph starts are strictly increasing and
\* start[k+1] = start[k] + byte_len[k] + 1.
C5_StartsMonotone ==
    ~panicked =>
        LET order == paragraph_order(document)
            b(k) == document.paragraph_index.para_bounds[order[k]]
        IN \A k \in 1..(Len(order) - 1) :
              /\ ULt(b(k)[1], b(k + 1)[1])
              /\ b(k + 1)[1] = b(k)[1] + b(k)[2] + 1

\* C6: from an Editor state with a non-empty undo stack, undo() immediately
\* followed by redo() both return true and leave text() as it was before the undo.
C6_UndoRedoIdentity ==
    (~panicked /\ hist.call = "redo" /\ hist.prev_call = "undo" /\ hist.prev_undoable) =>
        /\ hist.prev_ret
        /\ hist.ret
        /\ Document_text(document) = hist.prev_text

\* C7: after fewer than max_depth insert_text / delete calls on a fresh Editor,
\* calling undo() until it returns false restores text() to the initial text.
C7_UndoAllRestoresInitial ==
    (~panicked /\ hist.phase = "undos" /\ hist.call = "undo" /\ ~hist.ret
        /\ hist.edits < max_depth) =>
        Document_text(document) = hist.initial_text

\* C8: every top-level apply_edit and every format_range call that returns
\* increases version() by exactly one.
C8_VersionPlusOne ==
    [][(panicked' = panicked) => document'.version = document.version + 1]_vars

\* C9: computing r = compute_reverse(op) before applying op, then applying op and
\* then r, restores text().
C9_ReverseRestoresText ==
    (~panicked /\ last.call = "reverse") => Document_text(document) = last.text_before

\* C10: an id reported in created_paragraphs has never before been the id of a
\* paragraph of this document.
C10_IdsNeverReused ==
    [][last' # last => Created(last') \cap used_ids = {}]_vars

\* C10 witness: a paragraph is created after another paragraph's id was retired
C10_Witness ==
    /\ ~panicked
    /\ Created(last) # {}
    /\ \E id \in used_ids : id \notin DOMAIN document.blocks /\ id \notin Created(last)

\* C11: an Insert whose text holds k >= 1 newlines reports exactly k created ids;
\* the host paragraph keeps its id and its place, the k new paragraphs follow it
\* in the order of their segments, and host and new paragraphs each have byte_len
\* and paragraph_text equal to their run of text().
C11_SplitByNewline ==
    (~panicked /\ last.call = "insert" /\ CountNL(last.op.text) >= 1) =>
        LET k == CountNL(last.op.text)
            created == last.result.created_paragraphs
            order == paragraph_order(document)
            host == last.result.affected_paragraphs[1]
            runs == split_nl(Document_text(document))
        IN /\ Len(created) = k
           /\ Cardinality(Range(created)) = k
           /\ \E j \in 1..Len(order) :
                 /\ order[j] = host
                 /\ j + k <= Len(order)
                 /\ j + k <= Len(runs)
                 /\ \A i \in 1..k : order[j + i] = created[i]
                 /\ \A i \in 0..k :
                       /\ order[j + i] \in DOMAIN document.blocks
                       /\ document.blocks[order[j + i]].byte_len = Len(runs[j + i])
                       /\ ~paragraph_text_panics(document, order[j + i])
                       /\ paragraph_text(document, order[j + i]) = runs[j + i]

\* C12: a Delete on a freshly built document whose range starts in paragraph S
\* and ends in a later paragraph E removes exactly the bytes of the range, keeps
\* S with the text before the range joined to E's text after it, removes E and
\* the paragraphs between, and reports exactly those ids as deleted.
C12_CrossParagraphDelete ==
    (~panicked /\ last.call = "delete" /\ last.version_before = 0
        /\ last.op.start < last.op.end /\ last.op.end <= Len(last.text_before)
        /\ CountNL(Take(last.text_before, last.op.start))
             < CountNL(Take(last.text_before, last.op.end))) =>
        LET t == last.text_before
            before == paragraph_order(Document_from_text(t))
            s == CountNL(Take(t, last.op.start)) + 1
            e == CountNL(Take(t, last.op.end)) + 1
            S == before[s]
            runs == split_nl(Document_text(document))
        IN /\ Document_text(document) = Take(t, last.op.start) \o Drop(t, last.op.end)
           /\ paragraph_order(document) = Take(before, s) \o Drop(before, e)
           /\ Range(last.result.deleted_paragraphs) = Range(SubSeq(before, s + 1, e))
           /\ Len(last.result.deleted_paragraphs) = e - s
           /\ Range(last.result.deleted_paragraphs) \cap DOMAIN document.blocks = {}
           /\ S \in DOMAIN document.blocks
           /\ ~paragraph_text_panics(document, S)
           /\ paragraph_text(document, S) = runs[s]
           /\ document.blocks[S].byte_len = Len(runs[s])

\* the start, in the text, of the run between newlines that holds position pos
RunStart(text, pos) ==
    IF CountNL(Take(text, pos)) = 0 THEN 0
    ELSE CHOOSE i \in 1..pos : text[i] = NL /\ CountNL(SubSeq(text, i + 1, pos)) = 0

\* C13: an Insert without a newline at an in-range position p gives
\* old[..p] + text + old[p..], leaves the paragraph sequence as it was, reports
\* the host paragraph (the one whose text holds p) alone as affected and nothing
\* created or deleted, grows the host's byte_len by len(text) and returns the
\* cursor (host, p - host.start + len(text)).
C13_InsertStep ==
    (last'.call = "insert" /\ last' # last /\ ~panicked'
        /\ CountNL(last'.op.text) = 0 /\ last'.op.position <= Len(Document_text(document))) =>
        LET pos == last'.op.position
            text == last'.op.text
            old == Document_text(document)
            r == last'.result
            order == paragraph_order(document)
            n == CountNL(Take(old, pos)) + 1
        IN /\ Document_text(document') = Take(old, pos) \o text \o Drop(old, pos)
           /\ paragraph_order(document') = order
           /\ n <= Len(order)
           /\ r.affected_paragraphs = <<order[n]>>
           /\ r.created_paragraphs = <<>>
           /\ r.deleted_paragraphs = <<>>
           /\ order[n] \in DOMAIN document.blocks
           /\ document'.blocks[order[n]].byte_len = document.blocks[order[n]].byte_len + Len(text)
           /\ r.new_cursor = DocPosition(order[n], pos - RunStart(old, pos) + Len(text))

C13_PlainInsert == [][C13_InsertStep]_vars

\* C14: a Delete with end past the end of the text leaves the document that the
\* same Delete with end = length leaves, a Delete with start >= end leaves text, paragraphs
\* and style spans as they were and reports nothing affected, created or
\* deleted, and neither panics.
C14_ClampStep ==
    (last'.call = "delete_out_of_range" /\ last' # last) =>
        LET a == last'.op.start
            b == last'.op.end
            len == Len(Document_text(document))
        IN /\ ~panicked'
           /\ IF a >= b
              THEN /\ document' = [document EXCEPT !.version = document'.version]
                   /\ last'.result.affected_paragraphs = <<>>
                   /\ last'.result.created_paragraphs = <<>>
                   /\ last'.result.deleted_paragraphs = <<>>
              ELSE \E out \in apply_edit(document, Delete(a, len)) :
                      ~out.panic /\ out.doc = document'

C14_OutOfRangeClamped == [][C14_ClampStep]_vars

\* the undo stack a commit must leave: the pending transaction pushed as one
\* new entry, the oldest entries dropped down to max_depth
ExpectedUndoStack(stack, txn, depth) ==
    LET full == Append(stack, txn)
    IN IF Len(full) > depth THEN Drop(full, Len(full) - depth) ELSE full

\* C15: the undo stack never holds more than max_depth transactions; a commit of
\* a non-empty pending transaction pushes it as one entry of its own and drops
\* the oldest entries beyond max_depth; a commit with an empty or no pending
\* transaction changes neither stack.
C15_UndoDepthBounded ==
    /\ Len(undo_manager.undo_stack) <= undo_manager.max_depth
    /\ last.call = "commit" =>
          IF last.pending = None \/ last.pending.forward_ops = <<>>
          THEN /\ undo_manager.undo_stack = last.undo_before
               /\ undo_manager.redo_stack = last.redo_before
          ELSE undo_manager.undo_stack =
                   ExpectedUndoStack(last.undo_before, last.pending, undo_manager.max_depth)

\* a commit on a full stack: the new transaction is on top, the oldest is gone
C15_Witness ==
    /\ last.call = "commit"
    /\ last.pending # None
    /\ last.pending.forward_ops # <<>>
    /\ undo_manager.max_depth = MaxDepth
    /\ Len(last.undo_before) = undo_manager.max_depth
    /\ undo_manager.undo_stack[MaxDepth] = last.pending
    /\ undo_manager.undo_stack[1] # last.undo_before[1]

\* C16: when an undo() is followed by an insert_text or a successful delete,
\* the redo() that comes next returns false and leaves the document as it was.
C16_RedoStep ==
    (hist'.call = "redo" /\ hist' # hist
        /\ hist.call \in {"insert_text", "delete"} /\ hist.ret
        /\ hist.prev_call = "undo") =>
        (hist'.ret = FALSE /\ document' = document)

C16_EditClearsRedo == [][C16_RedoStep]_vars

\* redo() was called right after an edit that followed an undo(), itself called
\* after an earlier edit
C16_Witness ==
    /\ hist.call = "redo"
    /\ hist.prev_call \in {"insert_text", "delete"}
    /\ hist.prev_ret
    /\ hist.prev2_call = "undo"
    /\ hist.edits >= 2
    /\ ~panicked

\* C17: in every reachable document, also after a Delete of the whole text or
\* one reaching past its end, paragraph_count() >= 1 and first_paragraph() is an
\* id of the block map.
C17_AtLeastOneParagraph ==
    /\ paragraph_count(document) >= 1
    /\ first_paragraph(document) \in DOMAIN document.blocks

\* a Delete of a whole text of several paragraphs has left one empty paragraph
C17_Witness ==
    /\ last.call \in {"delete", "delete_out_of_range"}
    /\ ~panicked
    /\ CountNL(last.text_before) >= 1
    /\ last.op.start = 0
    /\ last.op.end >= Len(last.text_before)
    /\ last.result.deleted_paragraphs # <<>>
    /\ Document_text(document) = <<>>
    /\ paragraph_count(document) = 1

\* C18: after any sequence of Rope::insert and Rope::delete calls,
\* rope.line_count() is the number of newlines in rope.to_string().
C18_LineCount == RopeNode_line_count(rope) = CountNL(collect_all(rope))

\* a delete has taken a newline out of a rope that inserts had made a tree, and
\* newlines remain
C18_Witness ==
    /\ last.call = "Rope::delete"
    /\ rope.kind = "Branch"
    /\ CountNL(collect_all(rope)) >= 1
    /\ CountNL(last.before) > CountNL(collect_all(rope))

\* ------------------------------------------------------------------ C19
\* the lines of the document in reading order, each as <<paragraph, line index>>
RECURSIVE AllLines(_, _)
AllLines(paras, paragraph_layouts) ==
    IF paras = <<>> THEN <<>>
    ELSE (IF Head(paras) \in DOMAIN paragraph_layouts
          THEN [l \in 1..Len(paragraph_layouts[Head(paras)].lines) |-> <<Head(paras), l - 1>>]
          ELSE <<>>)
         \o AllLines(Tail(paras), paragraph_layouts)

DocLines == AllLines(paragraph_order(document), layout.paragraph_layouts)

LineHeightAt(k) == layout.paragraph_layouts[DocLines[k][1]].lines[DocLines[k][2] + 1].height

\* the places in DocLines of the lines of a page: from its start to its end
PageLines(page) ==
    {k \in 1..Len(DocLines) :
        \E s, e \in 1..Len(DocLines) :
            /\ DocLines[s] = <<page.start_para, page.start_line>>
            /\ DocLines[e] = <<page.end_para, page.end_line>>
            /\ s <= k /\ k <= e}

RECURSIVE SumHeights(_)
SumHeights(S) ==
    IF S = {} THEN 0
    ELSE LET k == CHOOSE x \in S : TRUE IN LineHeightAt(k) + SumHeights(S \ {k})

PageHeight(page) == SumHeights(PageLines(page))

\* the height of the first line of a page
FirstLineHeight(page) ==
    layout.paragraph_layouts[page.start_para].lines[page.start_line + 1].height

\* C19: right after relayout of a document whose paragraph index lists the
\* paragraphs in reading order, every page but the last holds lines whose heights
\* sum to at most content_height, and the first line of the next page would not
\* have fitted on it
C19_PagesGreedy ==
    (/\ last.call = "relayout"
     /\ ~panicked
     /\ paragraphs_from(document, 0) = paragraph_order(document)) =>
        \A i \in 1..(Len(layout.pages) - 1) :
            /\ PageHeight(layout.pages[i]) <= layout.constraints.content_height
            /\ PageHeight(layout.pages[i]) + FirstLineHeight(layout.pages[i + 1])
                   > layout.constraints.content_height

\* ------------------------------------------------------------------ C20
\* the style spans of one block are non-empty, lie within the block, are sorted
\* by start and do not overlap
SpansWellFormed(meta) ==
    /\ \A i \in 1..Len(meta.styles) :
          /\ ULt(meta.styles[i].start, meta.styles[i].end)
          /\ ULe(meta.styles[i].end, meta.byte_len)
    /\ \A i \in 1..(Len(meta.styles) - 1) :
          ULe(meta.styles[i].end, meta.styles[i + 1].start)

\* C20: while the document has only ever had its first paragraph, whatever
\* format_range, Insert and Delete calls were made, no call stopped on an
\* underflowing span bound and the paragraph's style spans satisfy
\* start < end <= byte_len, are sorted by start and pairwise disjoint
C20_StyleSpans ==
    used_ids = {0} =>
        /\ ~panicked
        /\ \A p \in DOMAIN document.blocks : SpansWellFormed(document.blocks[p])

\* ------------------------------------------------------------------ C21
\* two neighbouring spans of a block touch and carry the same font
TouchingSameFont(meta) ==
    \E i \in 1..(Len(meta.styles) - 1) :
        /\ meta.styles[i].end = meta.styles[i + 1].start
        /\ meta.styles[i].font_id = meta.styles[i + 1].font_id

\* C21: whatever format_range, Insert and Delete calls were made, no paragraph
\* whose style spans are non-empty, in range, sorted and disjoint has two
\* touching spans with the same font_id
C21_AdjacentSpansMerged ==
    \A p \in DOMAIN document.blocks :
        SpansWellFormed(document.blocks[p]) => ~TouchingSameFont(document.blocks[p])

\* ------------------------------------------------------------------ C22
\* the u32 indices of the line records, found as a reader finds them: from the
\* page count of the header and the line count stored with each page
RECURSIVE LineRecordsFrom(_, _, _)
LineRecordsFrom(rb, idx, pages_left) ==
    IF pages_left = 0 THEN {}
    ELSE LET line_count == U32At(rb, idx + 1)
         IN {idx + 2 + U32_PER_LINE * k : k \in 0..(line_count - 1)}
            \cup LineRecordsFrom(rb, idx + 2 + U32_PER_LINE * line_count, pages_left - 1)

LineRecords(rb) == LineRecordsFrom(rb, HEADER_SIZE, U32At(rb, 4))

Finalized == last.call = "finalize"

\* C22: after finalize, following write_header and any page, line, cursor and
\* selection writes, the header holds MAGIC and SCHEMA_VERSION, cursor_present is
\* 0 or 1, u32_cursor_offset is positive exactly when cursor_present is 1,
\* selection_count is the number of write_selection calls, text_buffer_len is
\* the length of the text array, and every line record's text range, and its
\* marker range when marker_len > 0, lies within text_buffer_len; the debug
\* validation does not fire
C22_FlatBufferValid ==
    Finalized =>
        /\ ~panicked
        /\ U32At(render_buffer, 0) = MAGIC
        /\ U32At(render_buffer, 1) = SCHEMA_VERSION
        /\ U32At(render_buffer, 5) \in {0, 1}
        /\ (U32At(render_buffer, 8) > 0) <=> (U32At(render_buffer, 5) = 1)
        /\ (U32At(render_buffer, 5) = 1) <=> (last.cursor # None)
        /\ U32At(render_buffer, 6) = Len(last.selections)
        /\ U32At(render_buffer, 7) = Len(render_buffer.text_data)
        /\ Cardinality(LineRecords(render_buffer)) = total_lines(last.display_list)
        /\ \A idx \in LineRecords(render_buffer) :
              /\ U32At(render_buffer, idx) + U32At(render_buffer, idx + 1) <= U32At(render_buffer, 7)
              /\ U32At(render_buffer, idx + 7) > 0 =>
                    U32At(render_buffer, idx + 6) + U32At(render_buffer, idx + 7)
                        <= U32At(render_buffer, 7)

\* a finalized buffer of two pages with a marker line, a cursor and two selections
C22_Witness ==
    /\ Finalized
    /\ Len(last.display_list.pages) = 2
    /\ last.cursor # None
    /\ Len(last.selections) = 2
    /\ \E idx \in LineRecords(render_buffer) : U32At(render_buffer, idx + 7) > 0

\* ------------------------------------------------------------------ C23
Prepared == last.phase \in {"prepared", "writing", "finalized"}

\* C23: between prepare and the host's read nothing is reallocated: after
\* prepare with the sizes of the pre-scan, every write_header, begin_page,
\* write_line, write_cursor, write_selection and finalize keeps the lengths of
\* the u32, f32 and text arrays within the pre-scanned sizes, hence within the
\* capacities fixed by prepare, and the capacities are those prepare left
C23_NoReallocation ==
    Prepared =>
        /\ Len(render_buffer.u32_data) <= u32_needed(last.display_list)
        /\ Len(render_buffer.f32_data) <= f32_needed(last.display_list)
        /\ Len(render_buffer.text_data) <= text_needed(last.display_list)
        /\ u32_needed(last.display_list) + 32 <= last.prepared.u32_capacity
        /\ f32_needed(last.display_list) + 32 <= last.prepared.f32_capacity
        /\ text_needed(last.display_list) + 256 <= last.prepared.text_capacity
        /\ render_buffer.u32_capacity = last.prepared.u32_capacity
        /\ render_buffer.f32_capacity = last.prepared.f32_capacity
        /\ render_buffer.text_capacity = last.prepared.text_capacity

\* a finalized frame that used every u32, f32 and text element it was sized for,
\* in a buffer whose u32 array an earlier prepare had to allocate anew
C23_Witness ==
    /\ Finalized
    /\ Len(last.display_list.pages) = 2
    /\ last.display_list.caret
    /\ last.display_list.selection_count = 2
    /\ Len(render_buffer.u32_data) = u32_needed(last.display_list)
    /\ Len(render_buffer.f32_data) = f32_needed(last.display_list)
    /\ Len(render_buffer.text_data) = text_needed(last.display_list)
    /\ Len(render_buffer.text_data) > 0
    /\ render_buffer.u32_capacity > RenderBuffer_new.u32_capacity

\* ------------------------------------------------------------------ C30
\* where the page data ends, from the display list that was written
PageDataU32(dl) == HEADER_SIZE + SeqSum([i \in 1..Len(dl.pages) |-> 2 + U32_PER_LINE * Len(dl.pages[i])])
PageDataF32(dl) == 3 * Len(dl.pages) + 2 * total_lines(dl)

\* C30: the cursor and selection records follow all page data whatever the order
\* of the calls between write_header and finalize: after finalize
\* u32_cursor_offset = 12 + the sum over the pages of (2 + 14 * line_count),
\* f32_cursor_offset = 3 * pages + 2 * lines, the selection offsets are the
\* cursor offsets plus 2 (u32) and 3 (f32) when a cursor is present and the end
\* of the page data otherwise, and the records at those offsets hold the values
\* of the last write_cursor and of each write_selection in call order
C30_CursorSelectionAfterPages ==
    Finalized =>
        LET rb == render_buffer
            dl == last.display_list
            has_cursor == last.cursor # None
            sel_u32 == PageDataU32(dl) + (IF has_cursor THEN U32_PER_CURSOR ELSE 0)
            sel_f32 == PageDataF32(dl) + (IF has_cursor THEN F32_PER_CURSOR ELSE 0)
        IN /\ has_cursor =>
                /\ U32At(rb, 8) = PageDataU32(dl)
                /\ U32At(rb, 10) = PageDataF32(dl)
                /\ U32At(rb, U32At(rb, 8)) = last.cursor.some.page_index
                /\ U32At(rb, U32At(rb, 8) + 1) = last.cursor.some.utf16_offset_in_line
                /\ F32At(rb, U32At(rb, 10)) = last.cursor.some.x
                /\ F32At(rb, U32At(rb, 10) + 1) = last.cursor.some.y
                /\ F32At(rb, U32At(rb, 10) + 2) = last.cursor.some.height
           /\ last.selections # <<>> =>
                /\ U32At(rb, 9) = sel_u32
                /\ U32At(rb, 11) = sel_f32
                /\ \A k \in 1..Len(last.selections) :
                      /\ U32At(rb, U32At(rb, 9) + (k - 1)) = last.selections[k].page_index
                      /\ F32At(rb, U32At(rb, 11) + 4 * (k - 1)) = last.selections[k].x
                      /\ F32At(rb, U32At(rb, 11) + 4 * (k - 1) + 1) = last.selections[k].y
                      /\ F32At(rb, U32At(rb, 11) + 4 * (k - 1) + 2) = last.selections[k].width
                      /\ F32At(rb, U32At(rb, 11) + 4 * (k - 1) + 3) = last.selections[k].height
           /\ Len(rb.u32_data) = sel_u32 + Len(last.selections)
           /\ Len(rb.f32_data) = sel_f32 + 4 * Len(last.selections)

\* a finalized frame whose cursor was written twice, last while the second page
\* was being written, with one selection written before the first page was
\* closed and one after the last
C30_Witness ==
    /\ Finalized
    /\ last.cursor_writes = 2
    /\ last.cursor # None /\ last.cursor.some.page_index = 1
    /\ Len(last.selections) = 2
    /\ last.selections[1].page_index = 0
    /\ last.selections[2].page_index = 2
    /\ total_lines(last.display_list) > 0

\* ------------------------------------------------------------------ C24
ByteRanges(para_layout) == [k \in 1..Len(para_layout.lines) |-> para_layout.lines[k].byte_range]

\* C24: "Hello World" with every character 8 wide and an effective width of 40
\* breaks into exactly two lines with byte ranges 0..5 and 6..11: the whitespace
\* at which the soft wrap is taken is consumed and lies in neither line
C24_HelloWorldWrap ==
    (/\ last.call = "layout_paragraph"
     /\ last.text = HelloWorld
     /\ last.metrics = TestFontMetrics
     /\ last.max_width = 40)
        => ByteRanges(last.result.some) = <<<<0, 5>>, <<6, 11>>>>

\* ------------------------------------------------------------------ C25
\* C25: when relayout returns the cache is valid for the document: no paragraph
\* is dirty, layout_version is the document's version, every paragraph of
\* paragraph_order() has a ParagraphLayout and there is at least one page
C25_RelayoutValid ==
    (last.call = "relayout" /\ ~panicked) =>
        /\ layout.dirty_paragraphs = {}
        /\ layout.layout_version = document.version
        /\ \A p \in Range(paragraph_order(document)) : p \in DOMAIN layout.paragraph_layouts
        /\ layout.pages # <<>>

\* relayout has returned for a document of several paragraphs, reached by two
\* edits, whose lines fill more than one page
C25_Witness ==
    /\ last.call = "relayout" /\ ~panicked
    /\ document.version = 2
    /\ Len(paragraph_order(document)) >= 2
    /\ Len(layout.pages) >= 2

\* ------------------------------------------------------------------ C26
\* the DocPositions that address an existing paragraph and a byte of it (or its end)
PositionsOf(doc) ==
    UNION {{DocPosition(p, o) : o \in 0..doc.blocks[p].byte_len} :
              p \in Range(paragraph_order(doc)) \cap DOMAIN doc.blocks}

SequenceIndex(doc, p) == CHOOSE i \in 1..Len(paragraph_order(doc)) : paragraph_order(doc)[i] = p

\* a precedes b in the document
DocumentOrderLt(doc, a, b) ==
    \/ SequenceIndex(doc, a.para_id) < SequenceIndex(doc, b.para_id)
    \/ a.para_id = b.para_id /\ a.offset < b.offset

\* the blocks tile the text in sequence order: every paragraph starts where its
\* predecessor and the newline after it end, and the last one ends the text
BlocksTileText(doc) ==
    LET order == paragraph_order(doc) IN
    /\ Range(order) = DOMAIN doc.blocks
    /\ Cardinality(Range(order)) = Len(order)
    /\ doc.blocks[order[1]].start_offset = 0
    /\ \A i \in 1..(Len(order) - 1) :
          doc.blocks[order[i + 1]].start_offset
              = doc.blocks[order[i]].start_offset + doc.blocks[order[i]].byte_len + 1
    /\ doc.blocks[order[Len(order)]].start_offset + doc.blocks[order[Len(order)]].byte_len
          = Len(Document_text(doc))

\* C26: the ordering on DocPosition follows document order: for positions a, b
\* that address existing paragraphs of a document reached by edits, a < b iff
\* a's paragraph precedes b's in the paragraph sequence or they share it and
\* a.offset < b.offset; Selection.ordered() returns the earlier endpoint first,
\* so position_to_offset(start) <= position_to_offset(end)
C26_PositionOrder ==
    (~panicked /\ BlocksTileText(document)) =>
        \A a \in PositionsOf(document), b \in PositionsOf(document) :
            /\ (DocPosition_le(a, b) /\ a # b) <=> DocumentOrderLt(document, a, b)
            /\ LET o == ordered(Selection(a, b))
               IN position_to_offset(document, o[1]) <= position_to_offset(document, o[2])

\* ------------------------------------------------------------------ C27
\* a fresh LayoutState with the same constraints after one relayout of the document
FullLayout == relayout(LayoutState_new(layout.constraints), document)

\* C27: incremental layout equals full layout: right after relayout, following
\* edits that were each handed to invalidate, pages() and the layout of every
\* paragraph equal those of a fresh LayoutState after one relayout of the
\* document, so every resumed page has the right start_para and start_line
C27_IncrementalEqualsFull ==
    (/\ last.call = "relayout"
     /\ ~panicked
     /\ BlocksTileText(document)
     /\ paragraphs_from(document, 0) = paragraph_order(document)
     /\ ~FullLayout.panic)
        => /\ layout.pages = FullLayout.layout.pages
           /\ \A p \in Range(paragraph_order(document)) :
                 layout.paragraph_layouts[p] = FullLayout.layout.paragraph_layouts[p]

\* ------------------------------------------------------------------ C28
\* C28: right after relayout, following any edits, the first paragraph lies at
\* y = 0 and every other paragraph at the y of its predecessor plus the
\* predecessor's total height
C28_YOffsetsCumulative ==
    (/\ last.call = "relayout"
     /\ ~panicked
     /\ BlocksTileText(document)
     /\ paragraphs_from(document, 0) = paragraph_order(document))
        => LET order == paragraph_order(document) IN
           /\ paragraph_y(layout, order[1]) = 0
           /\ \A i \in 2..Len(order) :
                 paragraph_y(layout, order[i])
                     = paragraph_y(layout, order[i - 1])
                       + layout.paragraph_layouts[order[i - 1]].total_height

\* ------------------------------------------------------------------ C29
\* C29: layout entries are destroyed with their paragraph: right after the
\* layout is brought up to date, following any edits, the paragraphs that have
\* a ParagraphLayout are exactly the paragraphs of the document, and no page
\* starts or ends at a paragraph that is no longer in the document
C29_LayoutsFollowParagraphs ==
    (/\ last.call = "relayout"
     /\ ~panicked
     /\ BlocksTileText(document)
     /\ paragraphs_from(document, 0) = paragraph_order(document))
        => /\ DOMAIN layout.paragraph_layouts = Range(paragraph_order(document))
           /\ \A k \in 1..Len(layout.pages) :
                 /\ layout.pages[k].start_para \in Range(paragraph_order(document))
                 /\ layout.pages[k].end_para \in Range(paragraph_order(document))

\* ------------------------------------------------------------------ C32
\* the position a byte boundary x of the block has once the bytes start..end
\* are gone: reduced by the number of deleted bytes that precede it
SurvivingBoundary(x, start, end) ==
    IF x <= start THEN x ELSE IF x >= end THEN x - (end - start) ELSE start

\* the spans as the images of their surviving bytes, empty images left out
ExpectedAfterDelete(styles, start, end) ==
    LET img == [i \in 1..Len(styles) |->
                   [styles[i] EXCEPT !.start = SurvivingBoundary(@, start, end),
                                     !.end = SurvivingBoundary(@, start, end)]]
        nonempty(sp) == sp.start < sp.end
    IN SelectSeq(img, nonempty)

\* C32: an on_delete(start, end) call with start <= end <= byte_len on a block
\* with well-formed spans does not stop on an underflow, and afterwards every
\* span is the image of its surviving bytes: unchanged before start, shifted
\* back by end - start after end, clipped when it partly overlaps the range,
\* removed when it lies wholly inside it
C32_SpansMoveWithText ==
    /\ ~panicked
    /\ last.call = "on_delete" =>
          last.meta.styles = ExpectedAfterDelete(last.before, last.start, last.end)

\* ------------------------------------------------------------------ C33
\* every branch of the tree caches the byte length and the newline count of its
\* left subtree
RECURSIVE WeightsCached(_)
WeightsCached(n) ==
    n.kind = "Branch" =>
        /\ n.left_weight = Len(collect_all(n.left))
        /\ n.left_lines = CountNL(collect_all(n.left))
        /\ WeightsCached(n.left)
        /\ WeightsCached(n.right)

\* C33: after any sequence of Rope::insert and Rope::delete calls, offsets past
\* the end included, every branch's left_weight is the byte length of its left
\* subtree and its left_lines the newline count, and len() is the byte length
\* of to_string()
C33_WeightsCached ==
    /\ WeightsCached(rope)
    /\ RopeNode_len(rope) = Len(collect_all(rope))

\* ------------------------------------------------------------------ C35
\* C35: in every reachable state of an UndoManager driven by begin_transaction,
\* record_edit, commit, undo and redo, the undo stack and the redo stack
\* together hold at most max_depth transactions, so the push of redo, which
\* has no depth check, never takes the undo stack past max_depth
C35_StacksWithinDepth ==
    Len(undo_manager.undo_stack) + Len(undo_manager.redo_stack) <= undo_manager.max_depth

\* a redo has just pushed the transaction that fills the undo stack of the
\* deepest manager
C35_Witness ==
    /\ last.call = "redo"
    /\ last.redo_before # <<>>
    /\ undo_manager.max_depth = MaxDepth
    /\ Len(undo_manager.undo_stack) = undo_manager.max_depth
    /\ Len(last.undo_before) = undo_manager.max_depth - 1
    /\ ~panicked

\* ------------------------------------------------------------------ C40
\* the ordered sequence, the id -> (start, len) map and the start -> id map of
\* a ParagraphIndex hold the same ids, and the start -> id map sends the start
\* of every id to that id
IndexCoupled(idx) ==
    /\ Range(idx.order) = DOMAIN idx.para_bounds
    /\ {idx.offset_to_para[k] : k \in DOMAIN idx.offset_to_para} = DOMAIN idx.para_bounds
    /\ \A id \in DOMAIN idx.para_bounds :
          /\ idx.para_bounds[id][1] \in DOMAIN idx.offset_to_para
          /\ idx.offset_to_para[idx.para_bounds[id][1]] = id

\* C40: an Insert without a newline, which only adds to one paragraph's length
\* and calls update_lengths_after(offset, delta), takes a document whose three
\* index maps are coupled to one whose maps are coupled, whatever order the
\* hash map is iterated in: no paragraph loses its start -> id entry or has it
\* overwritten when a shifted start equals a not-yet-shifted paragraph's start
C40_ShiftStep ==
    (/\ IndexCoupled(document.paragraph_index)
     /\ last' # last
     /\ last'.call = "insert"
     /\ CountNL(last'.op.text) = 0
     /\ ~panicked') =>
        IndexCoupled(document'.paragraph_index)

C40_IndexCoupled == [][C40_ShiftStep]_vars

\* ------------------------------------------------------------------ C37
\* the place of line `line` of paragraph `para` among the document's lines in
\* reading order, 0 when there is no such line
LinePlace(para, line) ==
    IF \E k \in 1..Len(DocLines) : DocLines[k] = <<para, line>>
    THEN CHOOSE k \in 1..Len(DocLines) : DocLines[k] = <<para, line>>
    ELSE 0

\* C37: right after relayout, following any edits that leave every page's
\* start and end paragraph in the document, the pages tile the lines of the
\* document: page 0 starts at line 0 of the first paragraph, each later
\* page starts at the line that follows the end of the page before it, the
\* last page ends at the last line of the last paragraph, and page_index is
\* the page's position in pages()
C37_PagesTileLines ==
    (/\ last.call = "relayout"
     /\ ~panicked
     /\ BlocksTileText(document)
     /\ paragraphs_from(document, 0) = paragraph_order(document)
     /\ \A k \in 1..Len(layout.pages) :
           {layout.pages[k].start_para, layout.pages[k].end_para}
               \subseteq Range(paragraph_order(document)))
        => LET pages == layout.pages
               first(k) == LinePlace(pages[k].start_para, pages[k].start_line)
               final(k) == LinePlace(pages[k].end_para, pages[k].end_line)
           IN /\ Len(pages) >= 1
              /\ first(1) = 1
              /\ final(Len(pages)) = Len(DocLines)
              /\ \A k \in 1..Len(pages) :
                    /\ pages[k].page_index = k - 1
                    /\ first(k) >= 1
                    /\ first(k) <= final(k)
                    /\ k > 1 => first(k) = final(k - 1) + 1

\* ------------------------------------------------------------------ C39
\* C39: for every text and width, layout_paragraph returns at least one line;
\* the byte ranges are in increasing order, start at 0 and end at the length
\* of the text, consecutive ranges abut or are separated by one consumed break
\* byte; every cluster of a line has its byte_offset inside the line's byte
\* range and x >= 0, and the width of a line with clusters is the x + width of
\* its last cluster
C39_LinesWellFormed ==
    last.call = "layout_paragraph" =>
        LET lines == last.result.some.lines
            n == Len(lines)
        IN /\ n >= 1
           /\ lines[1].byte_range[1] = 0
           /\ lines[n].byte_range[2] = Len(last.text)
           /\ \A k \in 1..n : lines[k].byte_range[1] <= lines[k].byte_range[2]
           /\ \A k \in 1..(n - 1) :
                 lines[k + 1].byte_range[1] - lines[k].byte_range[2] \in {0, 1}
           /\ \A k \in 1..n :
                 /\ \A c \in 1..Len(lines[k].clusters) :
                       /\ lines[k].byte_range[1] <= lines[k].clusters[c].byte_offset
                       /\ lines[k].clusters[c].byte_offset < lines[k].byte_range[2]
                       /\ lines[k].clusters[c].x >= 0
                 /\ lines[k].clusters # <<>> =>
                       lines[k].width = lines[k].clusters[Len(lines[k].clusters)].x
                                        + lines[k].clusters[Len(lines[k].clusters)].width

\* ------------------------------------------------------------------ C31
\* the x of a cursor position within its line, margin not included
LineRelativeX(ls, pos) == position_to_x(ls, pos).some - ls.constraints.margin_left

\* the X a vertical move from `cursor` aims at
TargetX(ls, cursor) ==
    IF cursor.preferred_x # None THEN cursor.preferred_x.some
    ELSE LineRelativeX(ls, cursor.position)

\* C31: the second of two consecutive vertical moves, the first of which began
\* a run (preferred_x was None), aims at the same X as the first: the
\* line-relative x of the offset the cursor had before the first move; and a
\* horizontal move leaves preferred_x = None
C31_PreferredXKept ==
    /\ (hist.call = "move_cursor" /\ last.call = "move_cursor" /\ last.horizontal # 0)
          => editor.cursor.preferred_x = None
    /\ (/\ hist.call = "move_cursor"
        /\ last.call = "move_cursor"
        /\ last.vertical # 0
        /\ last.prev # None
        /\ last.prev.some.vertical # 0
        /\ last.prev.some.cursor_before.preferred_x = None
        /\ position_to_x(layout, last.prev.some.cursor_before.position) # None
        /\ position_to_x(layout, last.cursor_before.position) # None)
          => TargetX(layout, last.cursor_before)
                 = LineRelativeX(layout, last.prev.some.cursor_before.position)

\* ------------------------------------------------------------------ C34
\* C34: after every sequence of insert_text, delete, move_cursor, undo and
\* redo calls that did not panic, the cursor names a paragraph of the document
\* with an offset of at most that paragraph's byte_len, and its absolute
\* offset is at most the length of the text
C34_CursorInRange ==
    ~panicked =>
        LET pos == editor.cursor.position IN
        /\ pos.para_id \in DOMAIN document.blocks
        /\ ULe(pos.offset, document.blocks[pos.para_id].byte_len)
        /\ ~position_to_offset_panics(document, pos)
        /\ ULe(position_to_offset(document, pos), Document_len(document))

\* C36: a select_all call that has been entered returns (or panics): under fair
\* scheduling of its loop iterations, from every state in which the call is inside
\* its while loop a state follows in which the call has returned or panicked.
C36_SelectAllTerminates ==
    (last.pc \in {"while", "for"}) ~> (panicked \/ last.pc = "done")

\* the (page, item) places of the Caret items of a display list
Carets(dl) ==
    {pi \in UNION {{<<j, i>> : i \in 1..Len(dl.pages[j].items)} : j \in 1..Len(dl.pages)} :
        dl.pages[pi[1]].items[pi[2]].type = "Caret"}

\* every paragraph of the document is laid out and the pages tile the lines of
\* the document in reading order
PagesCoverLines ==
    LET pages == layout.pages
        first(k) == LinePlace(pages[k].start_para, pages[k].start_line)
        final(k) == LinePlace(pages[k].end_para, pages[k].end_line)
    IN /\ DOMAIN layout.paragraph_layouts = Range(paragraph_order(document))
       /\ Len(pages) >= 1
       /\ first(1) = 1
       /\ final(Len(pages)) = Len(DocLines)
       /\ \A k \in 1..Len(pages) :
             /\ first(k) >= 1
             /\ first(k) <= final(k)
             /\ k > 1 => first(k) = final(k - 1) + 1

\* the cursor is in a paragraph of the document, at an offset inside the byte
\* range of the line that line_at_offset finds for it
CursorOnItsLine ==
    LET found == cursor_line(layout, editor.cursor) IN
    /\ editor.cursor.position.para_id \in Range(paragraph_order(document))
    /\ found # None
    /\ ULe(found.some[2].byte_range[1], editor.cursor.position.offset)
    /\ ULe(editor.cursor.position.offset, found.some[2].byte_range[2])

\* C38: right after build_display_list for a viewport that covers every page,
\* on a layout that update_layout brought up to date, whose pages tile the lines
\* of the document, with the cursor on a line of its paragraph, the display list
\* holds exactly one Caret, and it is on the page whose lines, from its start to
\* its end in reading order, include the line of the cursor; also when
\* paragraph ids do not increase in document order.
C38_OneCaret ==
    (/\ hist.call = "build_display_list"
     /\ ~panicked
     /\ ~editor.layout_dirty
     /\ last.first_visible_page = 0
     /\ PagesCoverLines
     /\ CursorOnItsLine)
    => LET dl == last.display_list
           found == cursor_line(layout, editor.cursor)
       IN /\ Cardinality(Carets(dl)) = 1
          /\ \A pi \in Carets(dl) :
                LinePlace(editor.cursor.position.para_id, found.some[1])
                    \in PageLines(layout.pages[dl.pages[pi[1]].page_index + 1])

====
